---- MODULE Spec2Model ----
(***************************************************************************)
(* Model of pokedexcli's two stores: the expiring cache of               *)
(* internal/pokecache (Cache, reapLoop, CacheAdd, CacheGet) and the      *)
(* Pokedex registry of internal/pokeapi (PokemonAdd, PokemonGet).        *)
(* Time is a discrete monotonic clock; goroutines interleave at the      *)
(* granularity of lock operations, clock reads and map accesses.         *)
(***************************************************************************)
EXTENDS Integers, FiniteSets, Sequences, TLC

\* ---------------------------------------------------------------- bounds
NumVals == 2
MaxTime == 2
MaxInterval == 2
MaxLen == 5

NumExp == 2

Callers == {"c1", "c2"}
Names == {"n1", "n2"}
Keys == {"k1", "k2"}
Vals == 1..NumVals
Intervals == 1..MaxInterval

\* PokemonStats values: the record of species number x, with its Name,
\* BaseExperience (60 gives a catch rate of 50, 120 of 33) and ID
Stats ==
  {[Name |-> "n" \o ToString(x), BaseExperience |-> 60 * x, ID |-> x] :
     x \in 1..NumExp}

\* Go's nil []byte and nil error
NilBytes == 0
NilErr == "nil"

VARIABLES
  cache,      \* Cache.cache : map[string]cacheEntry
  mu,         \* Cache.mu : TRUE while the mutex is locked
  interval,   \* Cache.interval
  now,        \* the monotonic clock read by time.Now / time.Since
  nextTick,   \* time of the ticker's next tick, 0 before NewTicker ran
  tickC,      \* number of ticks buffered in ticker.C (capacity 1)
  rpc,        \* position of the reapLoop goroutine
  visited,    \* keys the current range loop has already produced
  rk, rv,     \* the range loop's current k, v
  pc,         \* position of each caller goroutine
  arg,        \* arguments of the cache call each caller is in
  res,        \* what the caller's CacheGet read: data, ok, err
  lastVal,    \* history: the value of the latest CacheAdd on each key still
              \*   in the map (forgotten when the key is deleted)
  lastAdd,    \* history: the latest CacheAdd on each key, kept while it is
              \*   younger than interval (no property looks at it later)
  pokemon,    \* Pokedex.pokemon : map[string]PokemonStats
  rwW,        \* Pokedex.mu : TRUE while the write lock is held
  rwR,        \* Pokedex.mu : number of read locks held
  darg,       \* arguments of the Pokedex call each caller is in
  dres,       \* what the caller's PokemonGet / PokemonGetAllCaught read
  dlast,      \* history: per name, the latest PokemonAdd and whether it
              \*   replaced an earlier record
  rp,         \* position of the REPL (the main goroutine) in startREPL
  cmd,        \* the command the REPL is running: commandInput and args
  fetch,      \* the client call under way: its URL, body read and result
  cfg,        \* config.NextURL and config.PrevURL
  out,        \* what the command under way has printed
  caught,     \* history: the names whose catch fetched the stats and
              \*   rolled a success
  mem,        \* the bytes in the backing array of each []byte of the callers
  own,        \* each caller's own PokemonStats variable
  other,      \* the *Cache of a second NewCache call: its map, mutex,
              \*   interval, ticker and reaper
  clean       \* a call of cleanInput: its text, its position and its result

vars == <<cache, mu, interval, now, nextTick, tickC, rpc, visited, rk, rv,
          pc, arg, res, lastVal, lastAdd, pokemon, rwW, rwR, darg, dres,
          dlast, rp, cmd, fetch, cfg, out, caught, mem, own, other, clean>>

\* the variables of the Pokedex and of the cache
dexVars == <<pokemon, rwW, rwR, darg, dres, dlast>>
cacheVars == <<cache, mu, interval, now, nextTick, tickC, rpc, visited, rk, rv,
               arg, res, lastVal, lastAdd>>

\* the variables of the REPL
replVars == <<rp, cmd, fetch, cfg, out, caught>>

\* the memory of the callers, the second cache and the call of cleanInput
aliasVars == <<mem, own, other, clean>>

NoArg == [key |-> "", val |-> NilBytes]
NoEntry == [createdAt |-> 0, val |-> NilBytes]
NoRes == [data |-> NilBytes, ok |-> FALSE, err |-> NilErr, at |-> 0,
          createdAt |-> 0]
\* the zero value PokemonStats{}
NoStats == [Name |-> "", BaseExperience |-> 0, ID |-> 0]
NoDarg == [name |-> "", stats |-> NoStats]
NoDres == [stats |-> NoStats, ok |-> FALSE, err |-> NilErr, names |-> << >>]
NoDlast == [stats |-> NoStats, over |-> FALSE]
NoAdd == [t |-> 0, val |-> NilBytes, by |-> "none", over |-> FALSE]
NoCmd == [name |-> "", args |-> << >>]
NoFetch == [url |-> "", body |-> NilBytes, err |-> NilErr]
\* no call of cleanInput yet
NoClean == [text |-> << >>, words |-> << >>, pc |-> "idle"]
\* the second cache before its NewCache call
NoOther == [made |-> FALSE, cache |-> << >>, mu |-> FALSE, interval |-> 0,
            nextTick |-> 0, tickC |-> 0, rpc |-> "none", visited |-> {},
            rk |-> "", rv |-> NoEntry, reapers |-> 0]

\* ------------------------------------------------------- map primitives
\* a store that leaves an existing entry as it is
MapStoreKeep(m, k, e) ==
  [x \in DOMAIN m \cup {k} |-> IF x \in DOMAIN m THEN m[x] ELSE e]

\* c.cache[url] = entry  and  p.pokemon[pokemonName] = pokemonStats
MapStore(m, k, e) == [x \in DOMAIN m \cup {k} |-> IF x = k THEN e ELSE m[x]]

\* an entry whose createdAt is left at its zero value
NewEntryZero(t, data) == [createdAt |-> 0, val |-> data]

\* cacheEntry{createdAt: time.Now(), val: data}
NewEntry(t, data) == [createdAt |-> t, val |-> data]

\* delete(c.cache, k)
MapDelete(m, k) == [x \in DOMAIN m \ {k} |-> m[x]]

\* an eviction test that is one time unit too eager
ExpiredEarly(createdAt, t, ageLimit) == t - createdAt + 1 >= ageLimit

\* an eviction test that keeps an entry whose age equals the limit
ExpiredStrict(createdAt, t, ageLimit) == t - createdAt > ageLimit

\* time.Since(ageCache) >= ageLimit
Expired(createdAt, t, ageLimit) == t - createdAt >= ageLimit

\* ---------------------------------------------------------------- Init
\* NewCache(interval): empty map, unlocked mutex, reaper goroutine started;
\* NewPokedex(): empty map, unlocked RWMutex
Init ==
  /\ cache = << >>
  /\ mu = FALSE
  /\ interval \in Intervals
  /\ now = 0
  /\ nextTick = 0
  /\ tickC = 0
  /\ rpc = "start"
  /\ visited = {}
  /\ rk = ""
  /\ rv = NoEntry
  /\ pc = [p \in Callers |-> "idle"]
  /\ arg = [p \in Callers |-> NoArg]
  /\ res = [p \in Callers |-> NoRes]
  /\ lastVal = [k \in Keys |-> NilBytes]
  /\ lastAdd = [k \in Keys |-> NoAdd]
  /\ pokemon = << >>
  /\ rwW = FALSE
  /\ rwR = 0
  /\ darg = [p \in Callers |-> NoDarg]
  /\ dres = [p \in Callers |-> NoDres]
  /\ dlast = [n \in Names |-> NoDlast]
  /\ rp = "prompt"
  /\ cmd = NoCmd
  /\ fetch = NoFetch
  /\ cfg = [NextURL |-> "", PrevURL |-> ""]
  /\ out = << >>
  /\ caught = {}
  /\ mem = [v \in Vals |-> v]
  /\ own = [p \in Callers |-> NoStats]
  /\ other = NoOther
  /\ clean = NoClean

\* ------------------------------------------------------------ the clock
\* the reaper is idle with no tick owed to it
ReaperQuiet == rpc = "wait" /\ tickC = 0

\* the ticker of the second cache at time t: it sends on its own C every
\* interval of its own
TickOther(t) ==
  IF other.nextTick # 0 /\ t = other.nextTick
    THEN [other EXCEPT !.tickC = 1, !.nextTick = other.nextTick + other.interval]
    ELSE other

\* one unit of time passes, up to the horizon; the ticker sends on C (dropping
\* the tick when the buffer is full) every interval after its creation.
\* The history lastAdd forgets an insert once it is `memory` time units old.
Advance(horizon, memory) ==
  /\ now < horizon
  /\ now' = now + 1
  /\ IF nextTick # 0 /\ now + 1 = nextTick
       THEN tickC' = 1 /\ nextTick' = nextTick + interval
       ELSE UNCHANGED <<tickC, nextTick>>
  /\ lastAdd' = [k \in Keys |->
                   IF lastAdd[k] # NoAdd /\ now + 1 >= lastAdd[k].t + memory
                     THEN NoAdd ELSE lastAdd[k]]
  /\ other' = TickOther(now + 1)
  /\ UNCHANGED <<cache, mu, interval, rpc, visited, rk, rv, pc, arg, res,
                 lastVal, dexVars, replVars, mem, own, clean>>

\* the clock under arbitrary scheduling of the goroutines; the history of an
\* insert is kept while the insert is younger than interval
Tick == Advance(MaxTime, interval)

\* the clock when the reaper is scheduled on time: every tick is received and
\* its sweep finished before the clock moves on; the clock covers two sweep
\* periods and the history is kept throughout
TickOnTime == ReaperQuiet /\ Advance(2 * interval, 2 * interval + 1)

\* ------------------------------------------------------------- reapLoop
\* ticker := time.NewTicker(c.interval)
ReapStart ==
  /\ rpc = "start"
  /\ nextTick' = now + interval
  /\ rpc' = "wait"
  /\ UNCHANGED <<cache, mu, interval, now, tickC, visited, rk, rv, pc, arg, res, lastVal, lastAdd,
                 dexVars, replVars, aliasVars>>

\* <-ticker.C
ReapRecv ==
  /\ rpc = "wait"
  /\ tickC = 1
  /\ tickC' = 0
  /\ rpc' = "lock"
  /\ UNCHANGED <<cache, mu, interval, now, nextTick, visited, rk, rv, pc, arg, res, lastVal, lastAdd,
                 dexVars, replVars, aliasVars>>

\* a sweep that starts without waiting for the mutex
ReapLockNoWait ==
  /\ rpc = "lock"
  /\ mu' = TRUE
  /\ rpc' = "range"
  /\ visited' = {}
  /\ UNCHANGED <<cache, interval, now, nextTick, tickC, rk, rv, pc, arg, res,
                 lastVal, lastAdd, dexVars, replVars, aliasVars>>

\* c.mu.Lock()
ReapLock ==
  /\ rpc = "lock"
  /\ mu = FALSE
  /\ mu' = TRUE
  /\ rpc' = "range"
  /\ visited' = {}
  /\ UNCHANGED <<cache, interval, now, nextTick, tickC, rk, rv, pc, arg, res, lastVal, lastAdd,
                 dexVars, replVars, aliasVars>>

\* a loop that returns when it finds the map empty
ReapRangeExit ==
  /\ rpc = "range"
  /\ IF DOMAIN cache = {}
       THEN /\ rpc' = "exit"
            /\ UNCHANGED <<rk, rv, visited>>
       ELSE IF DOMAIN cache \ visited = {}
         THEN /\ rpc' = "unlock"
              /\ UNCHANGED <<rk, rv, visited>>
         ELSE \E k \in DOMAIN cache \ visited :
              /\ rk' = k
              /\ rv' = cache[k]
              /\ visited' = visited \cup {k}
              /\ rpc' = "check"
  /\ UNCHANGED <<cache, mu, interval, now, nextTick, tickC, pc, arg,
                 res, lastVal, lastAdd,
                 dexVars, replVars, aliasVars>>

\* for k, v := range c.cache  (Go's iteration order is unspecified)
ReapRange ==
  /\ rpc = "range"
  /\ IF DOMAIN cache \ visited = {}
       THEN /\ rpc' = "unlock"
            /\ UNCHANGED <<rk, rv, visited>>
       ELSE \E k \in DOMAIN cache \ visited :
            /\ rk' = k
            /\ rv' = cache[k]
            /\ visited' = visited \cup {k}
            /\ rpc' = "check"
  /\ UNCHANGED <<cache, mu, interval, now, nextTick, tickC, pc, arg, 
                 res, lastVal, lastAdd,
                 dexVars, replVars, aliasVars>>

\* a check that renews the createdAt of the entry it keeps
ReapCheckRenew ==
  /\ rpc = "check"
  /\ cache' = IF Expired(rv.createdAt, now, interval)
                THEN MapDelete(cache, rk)
                ELSE [cache EXCEPT ![rk].createdAt = now]
  /\ lastVal' = [k \in Keys |-> IF k \in DOMAIN cache' THEN lastVal[k]
                                                        ELSE NilBytes]
  /\ rpc' = "range"
  /\ UNCHANGED <<mu, interval, now, nextTick, tickC, visited, rk, rv, pc, arg,
                 res, lastAdd,
                 dexVars, replVars, aliasVars>>

\* if time.Since(ageCache) >= ageLimit { delete(c.cache, k) }
ReapCheck ==
  /\ rpc = "check"
  /\ cache' = IF Expired(rv.createdAt, now, interval)
                THEN MapDelete(cache, rk) ELSE cache
  /\ lastVal' = [k \in Keys |-> IF k \in DOMAIN cache' THEN lastVal[k]
                                                        ELSE NilBytes]
  /\ rpc' = "range"
  /\ UNCHANGED <<mu, interval, now, nextTick, tickC, visited, rk, rv, pc, arg,
                 res, lastAdd,
                 dexVars, replVars, aliasVars>>

\* c.mu.Unlock()
ReapUnlock ==
  /\ rpc = "unlock"
  /\ mu' = FALSE
  /\ rpc' = "wait"
  /\ rk' = ""
  /\ rv' = NoEntry
  /\ visited' = {}
  /\ UNCHANGED <<cache, interval, now, nextTick, tickC, pc, arg, res,
                 lastVal, lastAdd,
                 dexVars, replVars, aliasVars>>

\* ------------------------------------------------------------- CacheAdd
\* a caller enters CacheAdd(key, val) on the constructed cache (c != nil)
AddCall(p) ==
  /\ pc[p] = "idle"
  /\ pc' = [pc EXCEPT ![p] = "add_lock"]
  /\ UNCHANGED <<cache, mu, interval, now, nextTick, tickC, rpc, visited, rk,
                 rv, arg, res, lastVal, lastAdd,
                 dexVars, replVars, aliasVars>>

\* an insert that starts without waiting for the mutex
AddLockNoWait(p) ==
  /\ pc[p] = "add_lock"
  /\ mu' = TRUE
  /\ \E k \in Keys, v \in Vals : arg' = [arg EXCEPT ![p] = [key |-> k, val |-> v]]
  /\ pc' = [pc EXCEPT ![p] = "add_write"]
  /\ UNCHANGED <<cache, interval, now, nextTick, tickC, rpc, visited, rk, rv,
                 res, lastVal, lastAdd, dexVars, replVars, aliasVars>>

\* c.mu.Lock(); the arguments key, val are no one else's business before
\* the lock is held, so they are drawn here
AddLock(p) ==
  /\ pc[p] = "add_lock"
  /\ mu = FALSE
  /\ mu' = TRUE
  /\ \E k \in Keys, v \in Vals : arg' = [arg EXCEPT ![p] = [key |-> k, val |-> v]]
  /\ pc' = [pc EXCEPT ![p] = "add_write"]
  /\ UNCHANGED <<cache, interval, now, nextTick, tickC, rpc, visited, rk, rv,
                 res, lastVal, lastAdd,
                 dexVars, replVars, aliasVars>>

\* an insert that refuses a key the map already holds and returns an error
AddWriteRefuse(p) ==
  /\ pc[p] = "add_write"
  /\ IF arg[p].key \in DOMAIN cache
       THEN /\ res' = [res EXCEPT ![p] = [NoRes EXCEPT !.err = "key exists"]]
            /\ UNCHANGED <<cache, lastAdd, lastVal>>
       ELSE /\ cache' = MapStore(cache, arg[p].key, NewEntry(now, arg[p].val))
            /\ lastAdd' = [lastAdd EXCEPT ![arg[p].key] =
                             [t |-> now, val |-> arg[p].val, by |-> p,
                              over |-> FALSE]]
            /\ lastVal' = [lastVal EXCEPT ![arg[p].key] = arg[p].val]
            /\ UNCHANGED res
  /\ mu' = FALSE
  /\ pc' = [pc EXCEPT ![p] = "idle"]
  /\ arg' = [arg EXCEPT ![p] = NoArg]
  /\ UNCHANGED <<interval, now, nextTick, tickC, rpc, visited, rk, rv,
                 dexVars, replVars, aliasVars>>

\* an insert that replaces the whole map by the one new entry
AddWriteAlone(p) ==
  /\ pc[p] = "add_write"
  /\ cache' = [x \in {arg[p].key} |-> NewEntry(now, arg[p].val)]
  /\ lastAdd' = [lastAdd EXCEPT ![arg[p].key] =
                   [t |-> now, val |-> arg[p].val, by |-> p,
                    over |-> /\ arg[p].key \in DOMAIN cache
                             /\ cache[arg[p].key].val # arg[p].val]]
  /\ lastVal' = [lastVal EXCEPT ![arg[p].key] = arg[p].val]
  /\ mu' = FALSE
  /\ pc' = [pc EXCEPT ![p] = "idle"]
  /\ arg' = [arg EXCEPT ![p] = NoArg]
  /\ UNCHANGED <<interval, now, nextTick, tickC, rpc, visited, rk, rv, res,
                 dexVars, replVars, aliasVars>>

\* an insert that restarts the ticker
AddWriteResetsTicker(p) ==
  /\ pc[p] = "add_write"
  /\ cache' = MapStore(cache, arg[p].key, NewEntry(now, arg[p].val))
  /\ lastAdd' = [lastAdd EXCEPT ![arg[p].key] =
                   [t |-> now, val |-> arg[p].val, by |-> p,
                    over |-> /\ arg[p].key \in DOMAIN cache
                             /\ cache[arg[p].key].val # arg[p].val]]
  /\ lastVal' = [lastVal EXCEPT ![arg[p].key] = arg[p].val]
  /\ nextTick' = IF nextTick = 0 THEN 0 ELSE now + interval
  /\ mu' = FALSE
  /\ pc' = [pc EXCEPT ![p] = "idle"]
  /\ arg' = [arg EXCEPT ![p] = NoArg]
  /\ UNCHANGED <<interval, now, tickC, rpc, visited, rk, rv, res,
                 dexVars, replVars, aliasVars>>

\* entry := cacheEntry{createdAt: time.Now(), val: data}; c.cache[url] = entry;
\* return nil, running the deferred c.mu.Unlock()
AddWrite(p) ==
  /\ pc[p] = "add_write"
  /\ cache' = MapStore(cache, arg[p].key, NewEntry(now, arg[p].val))
  /\ lastAdd' = [lastAdd EXCEPT ![arg[p].key] =
                   [t |-> now, val |-> arg[p].val, by |-> p,
                    over |-> /\ arg[p].key \in DOMAIN cache
                             /\ cache[arg[p].key].val # arg[p].val]]
  /\ lastVal' = [lastVal EXCEPT ![arg[p].key] = arg[p].val]
  /\ mu' = FALSE
  /\ pc' = [pc EXCEPT ![p] = "idle"]
  /\ arg' = [arg EXCEPT ![p] = NoArg]
  /\ UNCHANGED <<interval, now, nextTick, tickC, rpc, visited, rk, rv, res,
                 dexVars, replVars, aliasVars>>

\* ------------------------------------------------------------- CacheGet
\* a caller enters CacheGet(key) on the constructed cache (c != nil)
GetCall(p) ==
  /\ pc[p] = "idle"
  /\ pc' = [pc EXCEPT ![p] = "get_lock"]
  /\ UNCHANGED <<cache, mu, interval, now, nextTick, tickC, rpc, visited, rk,
                 rv, arg, res, lastVal, lastAdd,
                 dexVars, replVars, aliasVars>>

\* c.mu.Lock(); the argument key is drawn here
GetLock(p) ==
  /\ pc[p] = "get_lock"
  /\ mu = FALSE
  /\ mu' = TRUE
  /\ \E k \in Keys : arg' = [arg EXCEPT ![p] = [key |-> k, val |-> NilBytes]]
  /\ pc' = [pc EXCEPT ![p] = "get_read"]
  /\ UNCHANGED <<cache, interval, now, nextTick, tickC, rpc, visited, rk, rv,
                 res, lastVal, lastAdd,
                 dexVars, replVars, aliasVars>>

\* what CacheGet returns for a key: data, ok, err
Found(e, t) == [data |-> e.val, ok |-> TRUE, err |-> NilErr, at |-> t,
                createdAt |-> e.createdAt]
NotFound(t) == [data |-> NilBytes, ok |-> FALSE, err |-> NilErr, at |-> t,
                createdAt |-> 0]

\* a lookup that reports a missing key as an error
GetReadMissErr(p) ==
  /\ pc[p] = "get_read"
  /\ res' = [res EXCEPT ![p] =
               IF arg[p].key \in DOMAIN cache
                 THEN Found(cache[arg[p].key], now)
                 ELSE [NotFound(now) EXCEPT !.err = "not found"]]
  /\ pc' = [pc EXCEPT ![p] = "get_ret"]
  /\ UNCHANGED <<cache, mu, interval, now, nextTick, tickC, rpc, visited, rk,
                 rv, arg, lastVal, lastAdd, dexVars, replVars, aliasVars>>

\* a lookup that refreshes the createdAt of the entry it finds
GetReadTouch(p) ==
  /\ pc[p] = "get_read"
  /\ res' = [res EXCEPT ![p] =
               IF arg[p].key \in DOMAIN cache
                 THEN Found(cache[arg[p].key], now)
                 ELSE NotFound(now)]
  /\ cache' = IF arg[p].key \in DOMAIN cache
                THEN [cache EXCEPT ![arg[p].key].createdAt = now]
                ELSE cache
  /\ pc' = [pc EXCEPT ![p] = "get_ret"]
  /\ UNCHANGED <<mu, interval, now, nextTick, tickC, rpc, visited, rk,
                 rv, arg, lastVal, lastAdd, dexVars, replVars, aliasVars>>

\* entry, ok := c.cache[url]; the values the function is about to return:
\* (nil, false, nil) or (entry.val, true, nil)
GetRead(p) ==
  /\ pc[p] = "get_read"
  /\ res' = [res EXCEPT ![p] =
               IF arg[p].key \in DOMAIN cache
                 THEN Found(cache[arg[p].key], now)
                 ELSE NotFound(now)]
  /\ pc' = [pc EXCEPT ![p] = "get_ret"]
  /\ UNCHANGED <<cache, mu, interval, now, nextTick, tickC, rpc, visited, rk,
                 rv, arg, lastVal, lastAdd,
                 dexVars, replVars, aliasVars>>

\* return data, ok, nil, running the deferred c.mu.Unlock()
GetRet(p) ==
  /\ pc[p] = "get_ret"
  /\ mu' = FALSE
  /\ pc' = [pc EXCEPT ![p] = "idle"]
  /\ arg' = [arg EXCEPT ![p] = NoArg]
  /\ res' = [res EXCEPT ![p] = NoRes]
  /\ UNCHANGED <<cache, interval, now, nextTick, tickC, rpc, visited, rk, rv,
                 lastVal, lastAdd,
                 dexVars, replVars, aliasVars>>

\* ----------------------------------------------------------- PokemonAdd
\* a caller enters PokemonAdd(name, stats) on the constructed Pokedex
PokemonAddCall(p) ==
  /\ pc[p] = "idle"
  /\ pc' = [pc EXCEPT ![p] = "padd_lock"]
  /\ UNCHANGED <<cacheVars, replVars, dexVars, replVars, aliasVars>>

\* an add that takes the lock without waiting for the readers and the writer
PokemonAddLockNoWait(p) ==
  /\ pc[p] = "padd_lock"
  /\ rwW' = TRUE
  /\ \E n \in Names, st \in Stats :
       darg' = [darg EXCEPT ![p] = [name |-> n, stats |-> st]]
  /\ pc' = [pc EXCEPT ![p] = "padd_write"]
  /\ UNCHANGED <<cacheVars, replVars, pokemon, rwR, dres, dlast, aliasVars>>

\* p.mu.Lock(): waits until no writer and no reader holds the RWMutex
PokemonAddLock(p) ==
  /\ pc[p] = "padd_lock"
  /\ rwW = FALSE
  /\ rwR = 0
  /\ rwW' = TRUE
  /\ \E n \in Names, st \in Stats :
       darg' = [darg EXCEPT ![p] = [name |-> n, stats |-> st]]
  /\ pc' = [pc EXCEPT ![p] = "padd_write"]
  /\ UNCHANGED <<cacheVars, replVars, pokemon, rwR, dres, dlast, aliasVars>>

\* an add that leaves the record of an already registered name as it is
PokemonAddWriteOnce(p) ==
  /\ pc[p] = "padd_write"
  /\ pokemon' = IF darg[p].name \in DOMAIN pokemon
                  THEN pokemon
                  ELSE MapStore(pokemon, darg[p].name, darg[p].stats)
  /\ dlast' = [dlast EXCEPT ![darg[p].name] =
                 [stats |-> darg[p].stats,
                  over |-> dlast[darg[p].name].stats # NoStats]]
  /\ rwW' = FALSE
  /\ pc' = [pc EXCEPT ![p] = "idle"]
  /\ darg' = [darg EXCEPT ![p] = NoDarg]
  /\ UNCHANGED <<cacheVars, replVars, rwR, dres, aliasVars>>

\* an add that stores the record's Name and returns before the other fields
PokemonAddWriteTorn(p) ==
  /\ pc[p] = "padd_write"
  /\ pokemon' = MapStore(pokemon, darg[p].name,
                         [(IF darg[p].name \in DOMAIN pokemon
                             THEN pokemon[darg[p].name] ELSE NoStats)
                            EXCEPT !.Name = darg[p].stats.Name])
  /\ dlast' = [dlast EXCEPT ![darg[p].name] =
                 [stats |-> darg[p].stats,
                  over |-> dlast[darg[p].name].stats # NoStats]]
  /\ rwW' = FALSE
  /\ pc' = [pc EXCEPT ![p] = "idle"]
  /\ darg' = [darg EXCEPT ![p] = NoDarg]
  /\ UNCHANGED <<cacheVars, replVars, rwR, dres, aliasVars>>

\* an add into a registry that holds one name at a time
PokemonAddWriteEvicts(p) ==
  /\ pc[p] = "padd_write"
  /\ pokemon' = [x \in {darg[p].name} |-> darg[p].stats]
  /\ dlast' = [dlast EXCEPT ![darg[p].name] =
                 [stats |-> darg[p].stats,
                  over |-> dlast[darg[p].name].stats # NoStats]]
  /\ rwW' = FALSE
  /\ pc' = [pc EXCEPT ![p] = "idle"]
  /\ darg' = [darg EXCEPT ![p] = NoDarg]
  /\ UNCHANGED <<cacheVars, replVars, rwR, dres, aliasVars>>

\* p.pokemon[pokemonName] = pokemonStats; return nil, running the deferred
\* p.mu.Unlock()
PokemonAddWrite(p) ==
  /\ pc[p] = "padd_write"
  /\ pokemon' = MapStore(pokemon, darg[p].name, darg[p].stats)
  /\ dlast' = [dlast EXCEPT ![darg[p].name] =
                 [stats |-> darg[p].stats,
                  over |-> dlast[darg[p].name].stats # NoStats]]
  /\ rwW' = FALSE
  /\ pc' = [pc EXCEPT ![p] = "idle"]
  /\ darg' = [darg EXCEPT ![p] = NoDarg]
  /\ UNCHANGED <<cacheVars, replVars, rwR, dres, aliasVars>>

\* ----------------------------------------------------------- PokemonGet
\* a caller enters PokemonGet(name) on the constructed Pokedex
PokemonGetCall(p) ==
  /\ pc[p] = "idle"
  /\ pc' = [pc EXCEPT ![p] = "pget_lock"]
  /\ UNCHANGED <<cacheVars, replVars, dexVars, replVars, aliasVars>>

\* p.mu.RLock(): waits until no writer holds the RWMutex
PokemonGetRLock(p) ==
  /\ pc[p] = "pget_lock"
  /\ rwW = FALSE
  /\ rwR' = rwR + 1
  /\ \E n \in Names : darg' = [darg EXCEPT ![p] = [name |-> n, stats |-> NoStats]]
  /\ pc' = [pc EXCEPT ![p] = "pget_read"]
  /\ UNCHANGED <<cacheVars, replVars, pokemon, rwW, dres, dlast, aliasVars>>

\* entry, ok := p.pokemon[pokemonName]; the values about to be returned
PokemonGetRead(p) ==
  /\ pc[p] = "pget_read"
  /\ dres' = [dres EXCEPT ![p] =
                IF darg[p].name \in DOMAIN pokemon
                  THEN [stats |-> pokemon[darg[p].name], ok |-> TRUE,
                        err |-> NilErr, names |-> << >>]
                  ELSE [stats |-> NoStats, ok |-> FALSE, err |-> NilErr,
                        names |-> << >>]]
  /\ pc' = [pc EXCEPT ![p] = "pget_ret"]
  /\ UNCHANGED <<cacheVars, replVars, pokemon, rwW, rwR, darg, dlast, aliasVars>>

\* a lookup that returns without p.mu.RUnlock()
PokemonGetRetNoRUnlock(p) ==
  /\ pc[p] = "pget_ret"
  /\ pc' = [pc EXCEPT ![p] = "idle"]
  /\ darg' = [darg EXCEPT ![p] = NoDarg]
  /\ dres' = [dres EXCEPT ![p] = NoDres]
  /\ UNCHANGED <<cacheVars, replVars, pokemon, rwW, rwR, dlast, aliasVars>>

\* return, running the deferred p.mu.RUnlock()
PokemonGetRet(p) ==
  /\ pc[p] = "pget_ret"
  /\ rwR' = rwR - 1
  /\ pc' = [pc EXCEPT ![p] = "idle"]
  /\ darg' = [darg EXCEPT ![p] = NoDarg]
  /\ dres' = [dres EXCEPT ![p] = NoDres]
  /\ UNCHANGED <<cacheVars, replVars, pokemon, rwW, dlast, aliasVars>>

\* -------------------------------------------------- PokemonGetAllCaught
\* the sequences that list every element of S once, in any order
Listings(S) ==
  {f \in [1..Cardinality(S) -> S] : \A i, j \in 1..Cardinality(S) : f[i] = f[j] => i = j}

\* a caller enters PokemonGetAllCaught() and takes the read lock
PokemonGetAllCaughtRLock(p) ==
  /\ pc[p] = "idle"
  /\ rwW = FALSE
  /\ rwR' = rwR + 1
  /\ pc' = [pc EXCEPT ![p] = "plist_read"]
  /\ UNCHANGED <<cacheVars, replVars, pokemon, rwW, darg, dres, dlast, aliasVars>>

\* collects the registered names, in the map's unspecified order
PokemonGetAllCaughtRead(p) ==
  /\ pc[p] = "plist_read"
  /\ \E l \in Listings(DOMAIN pokemon) :
       dres' = [dres EXCEPT ![p] = [stats |-> NoStats, ok |-> TRUE,
                                    err |-> NilErr, names |-> l]]
  /\ pc' = [pc EXCEPT ![p] = "plist_ret"]
  /\ UNCHANGED <<cacheVars, replVars, pokemon, rwW, rwR, darg, dlast, aliasVars>>

\* returns the names and releases the read lock
PokemonGetAllCaughtRet(p) ==
  /\ pc[p] = "plist_ret"
  /\ rwR' = rwR - 1
  /\ pc' = [pc EXCEPT ![p] = "idle"]
  /\ dres' = [dres EXCEPT ![p] = NoDres]
  /\ UNCHANGED <<cacheVars, replVars, pokemon, rwW, darg, dlast, aliasVars>>

\* ------------------------------------------------------- nil receivers
\* the error a method returns when its receiver is nil
NilReceiver(method) == method \o " called with nil receiver"

\* CacheAdd on a nil *Cache: if c == nil { return fmt.Errorf(...) }
AddNil(p) ==
  /\ pc[p] = "idle"
  /\ res' = [res EXCEPT ![p] = [NoRes EXCEPT !.err = NilReceiver("cacheAdd")]]
  /\ pc' = [pc EXCEPT ![p] = "add_nil"]
  /\ UNCHANGED <<cache, mu, interval, now, nextTick, tickC, rpc, visited, rk,
                 rv, arg, lastVal, lastAdd, dexVars, replVars, aliasVars>>

\* a CacheGet without the nil check: c.mu.Lock() dereferences the nil
\* receiver and the goroutine panics
GetNilDeref(p) ==
  /\ pc[p] = "idle"
  /\ pc' = [pc EXCEPT ![p] = "panic"]
  /\ UNCHANGED <<cacheVars, dexVars, replVars, aliasVars>>

\* CacheGet on a nil *Cache: if c == nil { return nil, false, fmt.Errorf(...) }
GetNil(p) ==
  /\ pc[p] = "idle"
  /\ res' = [res EXCEPT ![p] = [NoRes EXCEPT !.err = NilReceiver("cacheGet")]]
  /\ pc' = [pc EXCEPT ![p] = "get_nil"]
  /\ UNCHANGED <<cache, mu, interval, now, nextTick, tickC, rpc, visited, rk,
                 rv, arg, lastVal, lastAdd, dexVars, replVars, aliasVars>>

\* PokemonAdd on a nil *Pokedex
PokemonAddNil(p) ==
  /\ pc[p] = "idle"
  /\ dres' = [dres EXCEPT ![p] = [NoDres EXCEPT !.err = NilReceiver("PokemonAdd")]]
  /\ pc' = [pc EXCEPT ![p] = "padd_nil"]
  /\ UNCHANGED <<cacheVars, replVars, pokemon, rwW, rwR, darg, dlast, aliasVars>>

\* PokemonGet on a nil *Pokedex: return PokemonStats{}, false, fmt.Errorf(...)
PokemonGetNil(p) ==
  /\ pc[p] = "idle"
  /\ dres' = [dres EXCEPT ![p] = [NoDres EXCEPT !.err = NilReceiver("PokemonGet")]]
  /\ pc' = [pc EXCEPT ![p] = "pget_nil"]
  /\ UNCHANGED <<cacheVars, replVars, pokemon, rwW, rwR, darg, dlast, aliasVars>>

\* the caller has the error and goes on
NilRet(p) ==
  /\ pc[p] \in {"add_nil", "get_nil", "padd_nil", "pget_nil"}
  /\ pc' = [pc EXCEPT ![p] = "idle"]
  /\ res' = [res EXCEPT ![p] = NoRes]
  /\ dres' = [dres EXCEPT ![p] = NoDres]
  /\ UNCHANGED <<cache, mu, interval, now, nextTick, tickC, rpc, visited, rk,
                 rv, arg, lastVal, lastAdd, replVars, pokemon, rwW, rwR, darg,
                 dlast, aliasVars>>

\* ----------------------------------------------------------- cleanInput
\* a text is a sequence of characters, a character a string of length one
UpperLetters == <<"A", "B", "C", "D", "E", "F", "G", "H", "I", "J", "K", "L", "M",
                  "N", "O", "P", "Q", "R", "S", "T", "U", "V", "W", "X", "Y", "Z">>
LowerLetters == <<"a", "b", "c", "d", "e", "f", "g", "h", "i", "j", "k", "l", "m",
                  "n", "o", "p", "q", "r", "s", "t", "u", "v", "w", "x", "y", "z">>

\* the white space of unicode.IsSpace that the model's texts use
IsSpace(c) == c \in {" ", "\t", "\n"}

\* a ToLower that leaves every character as it is
ToLowerKeep(text) == text

\* strings.ToLower(text)
ToLower(text) ==
  [i \in DOMAIN text |->
     IF \E j \in DOMAIN UpperLetters : UpperLetters[j] = text[i]
       THEN LowerLetters[CHOOSE j \in DOMAIN UpperLetters : UpperLetters[j] = text[i]]
       ELSE text[i]]

\* strings.Fields: the scan of text, cur being the field under way and acc the
\* fields already closed
RECURSIVE FieldsFrom(_, _, _)
FieldsFrom(text, cur, acc) ==
  IF text = << >>
    THEN IF cur = << >> THEN acc ELSE Append(acc, cur)
    ELSE IF IsSpace(Head(text))
           THEN FieldsFrom(Tail(text), << >>,
                           IF cur = << >> THEN acc ELSE Append(acc, cur))
           ELSE FieldsFrom(Tail(text), Append(cur, Head(text)), acc)

\* a split at every single white space character, empty fields kept
RECURSIVE SplitFrom(_, _, _)
SplitFrom(text, cur, acc) ==
  IF text = << >>
    THEN Append(acc, cur)
    ELSE IF IsSpace(Head(text))
           THEN SplitFrom(Tail(text), << >>, Append(acc, cur))
           ELSE SplitFrom(Tail(text), Append(cur, Head(text)), acc)

FieldsSplit(text) == SplitFrom(text, << >>, << >>)

\* strings.Fields(text)
Fields(text) == FieldsFrom(text, << >>, << >>)

\* cleanInput(text): the empty slice for the empty text, else the fields of
\* the lowercased text
cleanInput(text) ==
  IF Len(text) = 0 THEN << >> ELSE Fields(ToLower(text))

\* the characters of the texts given to cleanInput, and the texts
CleanChars == {" ", "\t", "a", "B", "!"}
CleanTexts ==
  UNION {[1..n -> CleanChars] : n \in 0..MaxLen}

\* a call cleanInput(text)
cleanInputCall ==
  /\ clean.pc = "idle"
  /\ \E t \in CleanTexts :
       clean' = [text |-> t, words |-> << >>, pc |-> "called"]
  /\ UNCHANGED <<pc, cacheVars, dexVars, replVars, mem, own, other>>

\* return splitTxt
cleanInputRet ==
  /\ clean.pc = "called"
  /\ clean' = [clean EXCEPT !.words = cleanInput(clean.text), !.pc = "returned"]
  /\ UNCHANGED <<pc, cacheVars, dexVars, replVars, mem, own, other>>

\* the caller is done with the words
cleanInputDone ==
  /\ clean.pc = "returned"
  /\ clean' = NoClean
  /\ UNCHANGED <<pc, cacheVars, dexVars, replVars, mem, own, other>>

\* ------------------------------------------------------- the web service
NumPages == 2

\* Go's nil *string
Null == "null"

BaseURL == "https://pokeapi.co/api/v2"
AreasURL == BaseURL \o "/location-area"
PageURL(i) == AreasURL \o "?page=" \o ToString(i)
AreaURL(a) == AreasURL \o "/" \o a
PokemonURL(n) == BaseURL \o "/pokemon/" \o n

\* the location area listed on page i, and the areas the service knows
AreaOfPage(i) == "a" \o ToString(i)
Areas == {AreaOfPage(i) : i \in 1..NumPages}

\* the page a listing URL stands for, 0 when it is no listing URL
PageOf(url) ==
  IF url = AreasURL THEN 1
  ELSE IF \E i \in 1..NumPages : url = PageURL(i)
         THEN CHOOSE i \in 1..NumPages : url = PageURL(i)
         ELSE 0

\* response bodies: a body that is no JSON, and no body
Garbage == [kind |-> "garbage"]
NoBody == [kind |-> "none"]

\* the resources the service has a 200 answer for
Served(url) ==
  \/ PageOf(url) # 0
  \/ \E a \in Areas : url = AreaURL(a)
  \/ \E st \in Stats : url = PokemonURL(st.Name)

\* the JSON the service answers with: LocationAreaResponse,
\* LocationAreaDetails or PokemonStats
ServerBody(url) ==
  IF PageOf(url) # 0
    THEN [kind |-> "areas",
          Results |-> <<AreaOfPage(PageOf(url))>>,
          Next |-> IF PageOf(url) < NumPages THEN PageURL(PageOf(url) + 1) ELSE Null,
          Previous |-> IF PageOf(url) > 1 THEN PageURL(PageOf(url) - 1) ELSE Null]
    ELSE IF \E a \in Areas : url = AreaURL(a)
      THEN [kind |-> "area",
            Name |-> CHOOSE a \in Areas : url = AreaURL(a),
            PokemonEncounters |-> <<"n1">>]
      ELSE [kind |-> "stats",
            stats |-> CHOOSE st \in Stats : url = PokemonURL(st.Name)]

\* ----------------------------------------------- the client's fetch methods
\* GetLocationAreas, GetLocationArea and GetPokemonStats share these steps
\* on their URL: CacheGet, on a miss the HTTP request and CacheAdd
NoFetchOf(url) == [url |-> url, body |-> NoBody, err |-> NilErr]

\* c.cache.CacheGet(fullURL): c.mu.Lock()
FetchCacheGetLock ==
  /\ rp = "f_get_lock"
  /\ mu = FALSE
  /\ mu' = TRUE
  /\ rp' = "f_get"
  /\ UNCHANGED <<cache, interval, now, nextTick, tickC, rpc, visited, rk, rv,
                 pc, arg, res, lastVal, lastAdd, dexVars, cmd, fetch, cfg, out,
                 caught, aliasVars>>

\* a lookup that on a miss keeps the mutex through the HTTP request
FetchCacheGetHold ==
  /\ rp = "f_get"
  /\ mu' = (fetch.url \notin DOMAIN cache)
  /\ IF fetch.url \in DOMAIN cache
       THEN /\ fetch' = [fetch EXCEPT
                           !.body = cache[fetch.url].val,
                           !.err = IF cache[fetch.url].val = Garbage
                                     THEN "error unmarshalling json data"
                                     ELSE NilErr]
            /\ rp' = "f_done"
       ELSE /\ rp' = "f_http"
            /\ UNCHANGED fetch
  /\ UNCHANGED <<cache, interval, now, nextTick, tickC, rpc, visited, rk, rv,
                 pc, arg, res, lastVal, lastAdd, dexVars, cmd, cfg, out, caught, aliasVars>>

\* a lookup that finds the entry and still goes on to the HTTP request
FetchCacheGetRefetch ==
  /\ rp = "f_get"
  /\ mu' = FALSE
  /\ rp' = "f_http"
  /\ UNCHANGED <<cache, interval, now, nextTick, tickC, rpc, visited, rk, rv,
                 pc, arg, res, lastVal, lastAdd, dexVars, cmd, fetch, cfg, out,
                 caught, aliasVars>>

\* entry, ok := c.cache[url] and the deferred Unlock; on a hit
\* json.Unmarshal(cachedEntries, &res) and the method returns
FetchCacheGet ==
  /\ rp = "f_get"
  /\ mu' = FALSE
  /\ IF fetch.url \in DOMAIN cache
       THEN /\ fetch' = [fetch EXCEPT
                           !.body = cache[fetch.url].val,
                           !.err = IF cache[fetch.url].val = Garbage
                                     THEN "error unmarshalling json data"
                                     ELSE NilErr]
            /\ rp' = "f_done"
       ELSE /\ rp' = "f_http"
            /\ UNCHANGED fetch
  /\ UNCHANGED <<cache, interval, now, nextTick, tickC, rpc, visited, rk, rv,
                 pc, arg, res, lastVal, lastAdd, dexVars, cmd, cfg, out, caught, aliasVars>>

\* what c.PokeapiClient.Do, the status check, io.ReadAll and json.Unmarshal
\* can come to
HTTPOutcomes == {"do", "status", "read", "unmarshal", "ok"}

\* a request whose body is cached before it is decoded: a body that does not
\* decode goes on to CacheAdd
FetchDoStoresUndecoded ==
  /\ rp = "f_http"
  /\ \E o \in HTTPOutcomes :
       /\ o \in {"read", "unmarshal", "ok"} => Served(fetch.url)
       /\ fetch' = [fetch EXCEPT
                      !.body = IF o = "ok" THEN ServerBody(fetch.url)
                               ELSE IF o = "unmarshal" THEN Garbage ELSE NoBody,
                      !.err = CASE o = "do" -> "error client doing request"
                                [] o = "status" ->
                                     "error server response status code unsuccesful"
                                [] o = "read" -> "error reading server response body"
                                [] o = "unmarshal" -> "error unmarshalling json data"
                                [] o = "ok" -> NilErr]
       /\ rp' = IF o \in {"ok", "unmarshal"} THEN "f_add_lock" ELSE "f_done"
  /\ UNCHANGED <<cacheVars, pc, dexVars, cmd, cfg, out, caught, aliasVars>>

\* http.NewRequest, c.PokeapiClient.Do(req), the status code check,
\* io.ReadAll(res.Body) and json.Unmarshal(body, &res)
FetchDo ==
  /\ rp = "f_http"
  /\ \E o \in HTTPOutcomes :
       /\ o \in {"read", "unmarshal", "ok"} => Served(fetch.url)
       /\ fetch' = [fetch EXCEPT
                      !.body = IF o = "ok" THEN ServerBody(fetch.url)
                               ELSE IF o = "unmarshal" THEN Garbage ELSE NoBody,
                      !.err = CASE o = "do" -> "error client doing request"
                                [] o = "status" ->
                                     "error server response status code unsuccesful"
                                [] o = "read" -> "error reading server response body"
                                [] o = "unmarshal" -> "error unmarshalling json data"
                                [] o = "ok" -> NilErr]
       /\ rp' = IF o = "ok" THEN "f_add_lock" ELSE "f_done"
  /\ UNCHANGED <<cacheVars, pc, dexVars, cmd, cfg, out, caught, aliasVars>>

\* c.cache.CacheAdd(fullURL, body): c.mu.Lock()
FetchCacheAddLock ==
  /\ rp = "f_add_lock"
  /\ mu = FALSE
  /\ mu' = TRUE
  /\ rp' = "f_add"
  /\ UNCHANGED <<cache, interval, now, nextTick, tickC, rpc, visited, rk, rv,
                 pc, arg, res, lastVal, lastAdd, dexVars, cmd, fetch, cfg, out,
                 caught, aliasVars>>

\* an insert that files every body under the listing URL, whatever URL was
\* looked up
FetchCacheAddElsewhere ==
  /\ rp = "f_add"
  /\ cache' = MapStore(cache, AreasURL, NewEntry(now, fetch.body))
  /\ mu' = FALSE
  /\ rp' = "f_done"
  /\ UNCHANGED <<interval, now, nextTick, tickC, rpc, visited, rk, rv,
                 pc, arg, res, lastVal, lastAdd, dexVars, cmd, fetch, cfg, out,
                 caught, aliasVars>>

\* c.cache[url] = cacheEntry{createdAt: time.Now(), val: data}, the deferred
\* Unlock, and the method returns the decoded response
FetchCacheAdd ==
  /\ rp = "f_add"
  /\ cache' = MapStore(cache, fetch.url, NewEntry(now, fetch.body))
  /\ mu' = FALSE
  /\ rp' = "f_done"
  /\ UNCHANGED <<interval, now, nextTick, tickC, rpc, visited, rk, rv,
                 pc, arg, res, lastVal, lastAdd, dexVars, cmd, fetch, cfg, out,
                 caught, aliasVars>>

\* ------------------------------------------------------------- the REPL
\* the Go string of a word
RECURSIVE Join(_)
Join(w) == IF w = << >> THEN "" ELSE Head(w) \o Join(Tail(w))

\* the keys of getCommands()
CommandNames ==
  {"exit", "help", "map", "mapb", "explore", "catch", "inspect", "pokedex"}

\* the lines the user types
Sp == <<" ">>
Lines ==
  { << >>,
    Sp \o <<"\t">>,
    <<"e", "x", "i", "t">>,
    <<"h", "e", "l", "p">>,
    <<"m", "a", "p">>,
    <<"m", "a", "p", "b">>,
    <<"M", "A", "P">> \o Sp \o <<"x">>,
    <<"e", "x", "p", "l", "o", "r", "e">>,
    <<"e", "x", "p", "l", "o", "r", "e">> \o Sp \o <<"a", "1">>,
    <<"c", "a", "t", "c", "h">>,
    <<"c", "a", "t", "c", "h">> \o Sp \o <<"n", "1">>,
    Sp \o <<"C", "a", "t", "c", "h">> \o Sp \o Sp \o <<"N", "2">> \o Sp,
    <<"c", "a", "t", "c", "h">> \o Sp \o <<"z", "z">>,
    <<"i", "n", "s", "p", "e", "c", "t">>,
    <<"i", "n", "s", "p", "e", "c", "t">> \o Sp \o <<"n", "1">>,
    <<"i", "n", "s", "p", "e", "c", "t">> \o Sp \o <<"n", "2">>,
    <<"p", "o", "k", "e", "d", "e", "x">>,
    <<"c", "a", "t", "c", "h", "!">> \o Sp \o <<"n", "1">> }

\* the end of one pass of the loop: back to the prompt
ReplLoop ==
  /\ rp = "done"
  /\ rp' = "prompt"
  /\ cmd' = NoCmd
  /\ fetch' = NoFetch
  /\ out' = << >>
  /\ UNCHANGED <<cacheVars, pc, dexVars, cfg, caught, aliasVars>>

\* a dispatch that hands the callback every word, the command's name included
ReplReadAllWords ==
  /\ rp = "prompt"
  /\ \E line \in Lines :
       LET cleanedInput == cleanInput(line)
           commandInput == Join(cleanedInput[1])
           args == [i \in 1..Len(cleanedInput) |-> Join(cleanedInput[i])]
       IN  IF Len(cleanedInput) = 0
             THEN UNCHANGED <<rp, cmd, out>>
             ELSE IF commandInput \in CommandNames
                    THEN /\ cmd' = [name |-> commandInput, args |-> args]
                         /\ rp' = "run"
                         /\ out' = << >>
                    ELSE /\ out' = <<"Invalid command">>
                         /\ rp' = "done"
                         /\ UNCHANGED cmd
  /\ UNCHANGED <<cacheVars, pc, dexVars, fetch, cfg, caught, aliasVars>>

\* scanner.Scan(); cleanInput(scanner.Text()); the empty input goes back to
\* the prompt, a word that is no command prints "Invalid command", a command
\* has its callback called with the other words
ReplRead ==
  /\ rp = "prompt"
  /\ \E line \in Lines :
       LET cleanedInput == cleanInput(line)
           commandInput == Join(cleanedInput[1])
           args == [i \in 1..(Len(cleanedInput) - 1) |-> Join(cleanedInput[i + 1])]
       IN  IF Len(cleanedInput) = 0
             THEN UNCHANGED <<rp, cmd, out>>
             ELSE IF commandInput \in CommandNames
                    THEN /\ cmd' = [name |-> commandInput, args |-> args]
                         /\ rp' = "run"
                         /\ out' = << >>
                    ELSE /\ out' = <<"Invalid command">>
                         /\ rp' = "done"
                         /\ UNCHANGED cmd
  /\ UNCHANGED <<cacheVars, pc, dexVars, fetch, cfg, caught, aliasVars>>

\* a loop that stops when scanner.Scan() returns false, as `for scanner.Scan()`
\* would
ReplScanEndBreaks ==
  /\ rp \in {"prompt", "eof"}
  /\ rp' = "exited"
  /\ UNCHANGED <<cacheVars, pc, dexVars, cmd, fetch, cfg, out, caught, aliasVars>>

\* fmt.Print("Pokedex > "); scanner.Scan() at the end of the input or on a
\* read error returns false, which the loop does not test, and scanner.Text()
\* is then the empty string; every later Scan returns false again
ReplScanEnd ==
  /\ rp \in {"prompt", "eof"}
  /\ rp' = "eof_empty"
  /\ UNCHANGED <<cacheVars, pc, dexVars, cmd, fetch, cfg, out, caught, aliasVars>>

\* cleanInput("") has no words: continue, to the top of the loop
ReplEmptyContinue ==
  /\ rp = "eof_empty"
  /\ rp' = "eof"
  /\ UNCHANGED <<cacheVars, pc, dexVars, cmd, fetch, cfg, out, caught, aliasVars>>

\* the callback's error is printed by startREPL: fmt.Println(err)
Running(name) == rp = "run" /\ cmd.name = name
Fetched(name) == rp = "f_done" /\ cmd.name = name

\* commandExit: os.Exit(0)
commandExit ==
  /\ Running("exit")
  /\ out' = <<"Closing the Pokedex... Goodbye!">>
  /\ rp' = "exited"
  /\ UNCHANGED <<cacheVars, pc, dexVars, cmd, fetch, cfg, caught, aliasVars>>

\* commandHelp: the header, then one line per command, printed in the map's
\* unspecified order (the order is not recorded)
commandHelp ==
  /\ Running("help")
  /\ out' = <<"Welcome to the Pokedex!", "Usage:", "", "<name>: <description>">>
  /\ rp' = "done"
  /\ UNCHANGED <<cacheVars, pc, dexVars, cmd, fetch, cfg, caught, aliasVars>>

\* commandMap and commandMapb up to cfg.PokeapiClient.GetLocationAreas(url):
\* the cursor, or the first page when the cursor is empty
commandMap ==
  /\ Running("map")
  /\ fetch' = NoFetchOf(IF cfg.NextURL = "" THEN AreasURL ELSE cfg.NextURL)
  /\ rp' = "f_get_lock"
  /\ UNCHANGED <<cacheVars, pc, dexVars, cmd, cfg, out, caught, aliasVars>>

commandMapb ==
  /\ Running("mapb")
  /\ fetch' = NoFetchOf(IF cfg.PrevURL = "" THEN AreasURL ELSE cfg.PrevURL)
  /\ rp' = "f_get_lock"
  /\ UNCHANGED <<cacheVars, pc, dexVars, cmd, cfg, out, caught, aliasVars>>

\* a listing command that clears both cursors when the fetch failed
commandMapFetchedResets ==
  /\ Fetched("map") \/ Fetched("mapb")
  /\ IF fetch.err # NilErr
       THEN /\ out' = <<fetch.err>>
            /\ cfg' = [NextURL |-> "", PrevURL |-> ""]
       ELSE /\ cfg' = [NextURL |-> IF fetch.body.Next # Null
                                     THEN fetch.body.Next ELSE "",
                       PrevURL |-> IF fetch.body.Previous # Null
                                     THEN fetch.body.Previous ELSE ""]
            /\ out' = <<"Location Areas:">> \o
                      [i \in DOMAIN fetch.body.Results |->
                         "-  " \o fetch.body.Results[i]]
  /\ rp' = "done"
  /\ UNCHANGED <<cacheVars, pc, dexVars, cmd, fetch, caught, aliasVars>>

\* the rest of commandMap and of commandMapb: on an error return it, else
\* set both cursors from the response and print the areas
commandMapFetched ==
  /\ Fetched("map") \/ Fetched("mapb")
  /\ IF fetch.err # NilErr
       THEN /\ out' = <<fetch.err>>
            /\ UNCHANGED cfg
       ELSE /\ cfg' = [NextURL |-> IF fetch.body.Next # Null
                                     THEN fetch.body.Next ELSE "",
                       PrevURL |-> IF fetch.body.Previous # Null
                                     THEN fetch.body.Previous ELSE ""]
            /\ out' = <<"Location Areas:">> \o
                      [i \in DOMAIN fetch.body.Results |->
                         "-  " \o fetch.body.Results[i]]
  /\ rp' = "done"
  /\ UNCHANGED <<cacheVars, pc, dexVars, cmd, fetch, caught, aliasVars>>

\* commandExplore up to cfg.PokeapiClient.GetLocationArea(locationAreaName)
commandExplore ==
  /\ Running("explore")
  /\ IF Len(cmd.args) = 0
       THEN /\ out' = <<"error: explore must take location area name as argument">>
            /\ rp' = "done"
            /\ UNCHANGED fetch
       ELSE /\ fetch' = NoFetchOf(AreaURL(cmd.args[1]))
            /\ rp' = "f_get_lock"
            /\ UNCHANGED out
  /\ UNCHANGED <<cacheVars, pc, dexVars, cmd, cfg, caught, aliasVars>>

\* the rest of commandExplore
commandExploreFetched ==
  /\ Fetched("explore")
  /\ out' = IF fetch.err # NilErr
              THEN <<"error client fetching pokemon from location: " \o fetch.err>>
              ELSE IF Len(fetch.body.PokemonEncounters) = 0
                THEN <<"Exploring " \o cmd.args[1] \o "...",
                       "No Pokemon were found at this location.">>
                ELSE <<"Exploring " \o cmd.args[1] \o "...", "Found Pokemon:">> \o
                     [i \in DOMAIN fetch.body.PokemonEncounters |->
                        "- " \o fetch.body.PokemonEncounters[i]]
  /\ rp' = "done"
  /\ UNCHANGED <<cacheVars, pc, dexVars, cmd, fetch, cfg, caught, aliasVars>>

\* commandCatch up to cfg.PokeapiClient.GetPokemonStats(pokemonName)
commandCatch ==
  /\ Running("catch")
  /\ IF Len(cmd.args) = 0
       THEN /\ out' = <<"error: catch must take pokemon name as argument">>
            /\ rp' = "done"
            /\ UNCHANGED fetch
       ELSE /\ fetch' = NoFetchOf(PokemonURL(cmd.args[1]))
            /\ rp' = "f_get_lock"
            /\ UNCHANGED out
  /\ UNCHANGED <<cacheVars, pc, dexVars, cmd, cfg, caught, aliasVars>>

\* rand.Intn(96)
RollBound == 96

\* int(100.0 / (1.0 + float64(baseExperience)/60.0))
CatchRate(baseExperience) == 6000 \div (60 + baseExperience)

\* what commandCatch prints after the fetch, for a roll
CatchOut(name, catchSuccess) ==
  <<"Throwing a Pokeball at " \o name \o "...">> \o
  (IF catchSuccess
     THEN <<name \o " was caught!", name \o " has been added to the Pokedex!">>
     ELSE <<name \o " escaped!">>)

\* a catch that registers the pokemon whatever the roll
commandCatchFetchedAlways ==
  /\ Fetched("catch")
  /\ IF fetch.err # NilErr
       THEN /\ out' = <<"error client fetching pokemon details: " \o fetch.err>>
            /\ UNCHANGED <<pokemon, dlast, caught>>
       ELSE \E catchRoll \in 0..(RollBound - 1) :
              LET catchSuccess ==
                    catchRoll < CatchRate(fetch.body.stats.BaseExperience)
              IN  /\ out' = CatchOut(cmd.args[1], catchSuccess)
                  /\ rwW = FALSE
                  /\ rwR = 0
                  /\ pokemon' = MapStore(pokemon, cmd.args[1], fetch.body.stats)
                  /\ dlast' = [n \in DOMAIN dlast \cup {cmd.args[1]} |->
                                 IF n = cmd.args[1]
                                   THEN [stats |-> fetch.body.stats,
                                         over |-> cmd.args[1] \in DOMAIN pokemon]
                                   ELSE dlast[n]]
                  /\ caught' = IF catchSuccess THEN caught \cup {cmd.args[1]}
                                               ELSE caught
  /\ rp' = "done"
  /\ UNCHANGED <<cacheVars, pc, rwW, rwR, darg, dres, cmd, fetch, cfg, aliasVars>>

\* the rest of commandCatch: the fetch's error, or the roll against the catch
\* rate and, on a success, cfg.Pokedex.PokemonAdd(pokemonName, res) from
\* Lock to the deferred Unlock
commandCatchFetched ==
  /\ Fetched("catch")
  /\ IF fetch.err # NilErr
       THEN /\ out' = <<"error client fetching pokemon details: " \o fetch.err>>
            /\ UNCHANGED <<pokemon, dlast, caught>>
       ELSE \E catchRoll \in 0..(RollBound - 1) :
              LET catchSuccess ==
                    catchRoll < CatchRate(fetch.body.stats.BaseExperience)
              IN  /\ out' = CatchOut(cmd.args[1], catchSuccess)
                  /\ IF catchSuccess
                       THEN /\ rwW = FALSE
                            /\ rwR = 0
                            /\ pokemon' = MapStore(pokemon, cmd.args[1],
                                                   fetch.body.stats)
                            /\ dlast' = [n \in DOMAIN dlast \cup {cmd.args[1]} |->
                                           IF n = cmd.args[1]
                                             THEN [stats |-> fetch.body.stats,
                                                   over |-> cmd.args[1] \in DOMAIN pokemon]
                                             ELSE dlast[n]]
                            /\ caught' = caught \cup {cmd.args[1]}
                       ELSE UNCHANGED <<pokemon, dlast, caught>>
  /\ rp' = "done"
  /\ UNCHANGED <<cacheVars, pc, rwW, rwR, darg, dres, cmd, fetch, cfg, aliasVars>>

\* an inspect that looks the name up in an empty registry, whatever was caught
commandInspectForgets ==
  /\ Running("inspect")
  /\ IF Len(cmd.args) = 0
       THEN out' = <<"error: inspect must take pokemon name as argument">>
       ELSE /\ rwW = FALSE
            /\ out' = <<"you have not caught that pokemon">>
  /\ rp' = "done"
  /\ UNCHANGED <<cacheVars, pc, dexVars, cmd, fetch, cfg, caught, aliasVars>>

\* commandInspect: cfg.Pokedex.PokemonGet(pokemonName) from RLock to the
\* deferred RUnlock, then the record's fields are printed
commandInspect ==
  /\ Running("inspect")
  /\ IF Len(cmd.args) = 0
       THEN out' = <<"error: inspect must take pokemon name as argument">>
       ELSE /\ rwW = FALSE
            /\ out' = IF cmd.args[1] \in DOMAIN pokemon
                        THEN <<"Name: " \o pokemon[cmd.args[1]].Name,
                               "Height:", "Weight:", "Stats:", "Types:">>
                        ELSE <<"you have not caught that pokemon">>
  /\ rp' = "done"
  /\ UNCHANGED <<cacheVars, pc, dexVars, cmd, fetch, cfg, caught, aliasVars>>

\* commandPokedex: cfg.Pokedex.PokemonGetAllCaught(), then one line per name
commandPokedex ==
  /\ Running("pokedex")
  /\ rwW = FALSE
  /\ \E names \in Listings(DOMAIN pokemon) :
       out' = <<"Your Pokedex:">> \o
              (IF Len(names) = 0
                 THEN <<"You have not caught any pokemon yet!">>
                 ELSE [i \in DOMAIN names |-> " - " \o names[i]])
  /\ rp' = "done"
  /\ UNCHANGED <<cacheVars, pc, dexVars, cmd, fetch, cfg, caught, aliasVars>>

\* ------------------------------------------ the client's methods, called
\* directly
\* A caller other than the REPL calls a method of a *Client; the call is
\* recorded in cmd as the method and its argument.  The Client was made by
\* NewClient(cache) or by NewClient(nil): with the nil handle the lookup is
\* the CacheGet on a nil *Cache.
ClientMethods == {"GetLocationAreas", "GetLocationArea", "GetPokemonStats"}

\* the arguments of the direct calls: a page URL, a location name, a
\* creature's name, each of them possibly empty
ClientArgs(method) ==
  CASE method = "GetLocationAreas" -> {"", PageURL(NumPages)}
    [] method = "GetLocationArea" -> {"", AreaOfPage(1)}
    [] method = "GetPokemonStats" -> {"", "n1"}

\* the position of the cache lookup: c.cache.CacheGet on the constructed
\* cache or on the nil handle
LookupOf(haveCache) == IF haveCache THEN "f_get_lock" ELSE "f_get_nil"

\* GetLocationAreas(pageURL) up to c.cache.CacheGet(pageURL): the empty
\* pageURL stands for the first page
GetLocationAreasCall ==
  /\ rp = "prompt"
  /\ \E pageURL \in ClientArgs("GetLocationAreas"), haveCache \in BOOLEAN :
       /\ cmd' = [name |-> "GetLocationAreas", args |-> <<pageURL>>]
       /\ fetch' = NoFetchOf(IF pageURL = "" THEN AreasURL ELSE pageURL)
       /\ rp' = LookupOf(haveCache)
  /\ UNCHANGED <<cacheVars, pc, dexVars, cfg, out, caught, aliasVars>>

\* a GetLocationArea without the check of its argument: the empty name goes
\* on to the lookup of the URL it makes
GetLocationAreaCallUnchecked ==
  /\ rp = "prompt"
  /\ \E locationName \in ClientArgs("GetLocationArea"), haveCache \in BOOLEAN :
       /\ cmd' = [name |-> "GetLocationArea", args |-> <<locationName>>]
       /\ fetch' = NoFetchOf(AreaURL(locationName))
       /\ rp' = LookupOf(haveCache)
  /\ UNCHANGED <<cacheVars, pc, dexVars, cfg, out, caught, aliasVars>>

\* GetLocationArea(locationName) up to c.cache.CacheGet(fullURL); the empty
\* name returns an error at once
GetLocationAreaCall ==
  /\ rp = "prompt"
  /\ \E locationName \in ClientArgs("GetLocationArea"), haveCache \in BOOLEAN :
       /\ cmd' = [name |-> "GetLocationArea", args |-> <<locationName>>]
       /\ IF locationName = ""
            THEN /\ fetch' = [url |-> "", body |-> NoBody,
                              err |-> "location name cannot be empty"]
                 /\ rp' = "f_done"
            ELSE /\ fetch' = NoFetchOf(AreaURL(locationName))
                 /\ rp' = LookupOf(haveCache)
  /\ UNCHANGED <<cacheVars, pc, dexVars, cfg, out, caught, aliasVars>>

\* GetPokemonStats(pokemonName) up to c.cache.CacheGet(fullURL); the empty
\* name returns an error at once
GetPokemonStatsCall ==
  /\ rp = "prompt"
  /\ \E pokemonName \in ClientArgs("GetPokemonStats"), haveCache \in BOOLEAN :
       /\ cmd' = [name |-> "GetPokemonStats", args |-> <<pokemonName>>]
       /\ IF pokemonName = ""
            THEN /\ fetch' = [url |-> "", body |-> NoBody,
                              err |-> "pokemon name cannot be empty"]
                 /\ rp' = "f_done"
            ELSE /\ fetch' = NoFetchOf(PokemonURL(pokemonName))
                 /\ rp' = LookupOf(haveCache)
  /\ UNCHANGED <<cacheVars, pc, dexVars, cfg, out, caught, aliasVars>>

\* a lookup on the nil handle that is taken for a miss: the method goes on
\* to the HTTP request
FetchCacheGetNilFallsBack ==
  /\ rp = "f_get_nil"
  /\ rp' = "f_http"
  /\ UNCHANGED <<cacheVars, pc, dexVars, cmd, fetch, cfg, out, caught, aliasVars>>

\* c.cache.CacheGet(url) with c.cache == nil: CacheGet returns its
\* nil-receiver error, and `if err != nil` returns it wrapped
FetchCacheGetNil ==
  /\ rp = "f_get_nil"
  /\ fetch' = [fetch EXCEPT
                 !.err = "error getting cached entries: " \o NilReceiver("cacheGet")]
  /\ rp' = "f_done"
  /\ UNCHANGED <<cacheVars, pc, dexVars, cmd, cfg, out, caught, aliasVars>>

\* the method has returned to its caller
ClientRet ==
  /\ rp = "f_done"
  /\ cmd.name \in ClientMethods
  /\ rp' = "prompt"
  /\ cmd' = NoCmd
  /\ fetch' = NoFetch
  /\ UNCHANGED <<cacheVars, pc, dexVars, cfg, out, caught, aliasVars>>

\* ------------------------------------------------------ a second cache
\* The methods of pokecache on the *Cache of a second NewCache call: the same
\* code with c the second pointer, so every c.cache, c.mu and c.interval is
\* a field of `other`.
\* the keys the caller uses on the second cache
OtherKeys == {"k1"}

\* the durations a caller may pass to NewCache: negative, zero and positive
Durations == (0 - 1)..MaxInterval

\* NewCache(i) for any duration i: the interval is stored as it is given,
\* without a check, the reaper goroutine is started and the cache returned
NewCacheAny ==
  /\ ~other.made
  /\ \E i \in Durations :
       other' = [NoOther EXCEPT !.made = TRUE, !.interval = i, !.rpc = "start",
                                !.reapers = 1]
  /\ UNCHANGED <<pc, cacheVars, dexVars, replVars, mem, own, clean>>

\* a constructor that starts the reaper twice
NewCacheOtherTwice ==
  /\ ~other.made
  /\ \E i \in Intervals :
       other' = [NoOther EXCEPT !.made = TRUE, !.interval = i, !.rpc = "start",
                                !.reapers = 2]
  /\ UNCHANGED <<pc, cacheVars, dexVars, replVars, mem, own, clean>>

\* NewCache(i): a map, a mutex and an interval of its own, and a reaper
\* goroutine of its own, started by the one `go cache.reapLoop()`; reapers
\* counts the reaper goroutines started on the cache
NewCacheOther ==
  /\ ~other.made
  /\ \E i \in Intervals :
       other' = [NoOther EXCEPT !.made = TRUE, !.interval = i, !.rpc = "start",
                                !.reapers = 1]
  /\ UNCHANGED <<pc, cacheVars, dexVars, replVars, mem, own, clean>>

\* ticker := time.NewTicker(c.interval), which panics on an interval <= 0
\* ("non-positive interval for NewTicker"); the panic of a goroutine ends
\* the process
OtherReapStart ==
  /\ other.rpc = "start"
  /\ other' = IF other.interval <= 0
                THEN [other EXCEPT !.rpc = "panic"]
                ELSE [other EXCEPT !.nextTick = now + other.interval,
                                   !.rpc = "wait"]
  /\ UNCHANGED <<pc, cacheVars, dexVars, replVars, mem, own, clean>>

\* <-ticker.C
OtherReapRecv ==
  /\ other.rpc = "wait"
  /\ other.tickC = 1
  /\ other' = [other EXCEPT !.tickC = 0, !.rpc = "lock"]
  /\ UNCHANGED <<pc, cacheVars, dexVars, replVars, mem, own, clean>>

\* c.mu.Lock()
OtherReapLock ==
  /\ other.rpc = "lock"
  /\ other.mu = FALSE
  /\ other' = [other EXCEPT !.mu = TRUE, !.rpc = "range", !.visited = {}]
  /\ UNCHANGED <<pc, cacheVars, dexVars, replVars, mem, own, clean>>

\* for k, v := range c.cache
OtherReapRange ==
  /\ other.rpc = "range"
  /\ IF DOMAIN other.cache \ other.visited = {}
       THEN other' = [other EXCEPT !.rpc = "unlock"]
       ELSE \E k \in DOMAIN other.cache \ other.visited :
              other' = [other EXCEPT !.rk = k, !.rv = other.cache[k],
                                     !.visited = other.visited \cup {k},
                                     !.rpc = "check"]
  /\ UNCHANGED <<pc, cacheVars, dexVars, replVars, mem, own, clean>>

\* if time.Since(ageCache) >= ageLimit { delete(c.cache, k) }
OtherReapCheck ==
  /\ other.rpc = "check"
  /\ other' = [other EXCEPT
                 !.cache = IF Expired(other.rv.createdAt, now, other.interval)
                             THEN MapDelete(other.cache, other.rk)
                             ELSE other.cache,
                 !.rpc = "range"]
  /\ UNCHANGED <<pc, cacheVars, dexVars, replVars, mem, own, clean>>

\* c.mu.Unlock()
OtherReapUnlock ==
  /\ other.rpc = "unlock"
  /\ other' = [other EXCEPT !.mu = FALSE, !.rpc = "wait", !.rk = "",
                            !.rv = NoEntry, !.visited = {}]
  /\ UNCHANGED <<pc, cacheVars, dexVars, replVars, mem, own, clean>>

\* a caller enters CacheAdd(key, val) on the second cache
OtherAddCall(p) ==
  /\ other.made
  /\ pc[p] = "idle"
  /\ pc' = [pc EXCEPT ![p] = "oadd_lock"]
  /\ UNCHANGED <<cacheVars, dexVars, replVars, aliasVars>>

\* an insert into the second cache that waits for one mutex shared by all
\* the caches
OtherAddLockShared(p) ==
  /\ pc[p] = "oadd_lock"
  /\ other.mu = FALSE
  /\ mu = FALSE
  /\ other' = [other EXCEPT !.mu = TRUE]
  /\ \E k \in OtherKeys, v \in Vals : arg' = [arg EXCEPT ![p] = [key |-> k, val |-> v]]
  /\ pc' = [pc EXCEPT ![p] = "oadd_write"]
  /\ UNCHANGED <<cache, mu, interval, now, nextTick, tickC, rpc, visited, rk,
                 rv, res, lastVal, lastAdd, dexVars, replVars, mem, own, clean>>

\* c.mu.Lock()
OtherAddLock(p) ==
  /\ pc[p] = "oadd_lock"
  /\ other.mu = FALSE
  /\ other' = [other EXCEPT !.mu = TRUE]
  /\ \E k \in OtherKeys, v \in Vals : arg' = [arg EXCEPT ![p] = [key |-> k, val |-> v]]
  /\ pc' = [pc EXCEPT ![p] = "oadd_write"]
  /\ UNCHANGED <<cache, mu, interval, now, nextTick, tickC, rpc, visited, rk,
                 rv, res, lastVal, lastAdd, dexVars, replVars, mem, own, clean>>

\* c.cache[url] = cacheEntry{createdAt: time.Now(), val: data}; return nil,
\* running the deferred c.mu.Unlock()
OtherAddWrite(p) ==
  /\ pc[p] = "oadd_write"
  /\ other' = [other EXCEPT
                 !.cache = MapStore(other.cache, arg[p].key,
                                    NewEntry(now, arg[p].val)),
                 !.mu = FALSE]
  /\ pc' = [pc EXCEPT ![p] = "idle"]
  /\ arg' = [arg EXCEPT ![p] = NoArg]
  /\ UNCHANGED <<cache, mu, interval, now, nextTick, tickC, rpc, visited, rk,
                 rv, res, lastVal, lastAdd, dexVars, replVars, mem, own, clean>>

\* a caller enters CacheGet(key) on the second cache
OtherGetCall(p) ==
  /\ other.made
  /\ pc[p] = "idle"
  /\ pc' = [pc EXCEPT ![p] = "oget_lock"]
  /\ UNCHANGED <<cacheVars, dexVars, replVars, aliasVars>>

\* c.mu.Lock()
OtherGetLock(p) ==
  /\ pc[p] = "oget_lock"
  /\ other.mu = FALSE
  /\ other' = [other EXCEPT !.mu = TRUE]
  /\ \E k \in OtherKeys : arg' = [arg EXCEPT ![p] = [key |-> k, val |-> NilBytes]]
  /\ pc' = [pc EXCEPT ![p] = "oget_read"]
  /\ UNCHANGED <<cache, mu, interval, now, nextTick, tickC, rpc, visited, rk,
                 rv, res, lastVal, lastAdd, dexVars, replVars, mem, own, clean>>

\* entry, ok := c.cache[url]
OtherGetRead(p) ==
  /\ pc[p] = "oget_read"
  /\ res' = [res EXCEPT ![p] =
               IF arg[p].key \in DOMAIN other.cache
                 THEN Found(other.cache[arg[p].key], now)
                 ELSE NotFound(now)]
  /\ pc' = [pc EXCEPT ![p] = "oget_ret"]
  /\ UNCHANGED <<cache, mu, interval, now, nextTick, tickC, rpc, visited, rk,
                 rv, arg, lastVal, lastAdd, dexVars, replVars, aliasVars>>

\* return data, ok, nil, running the deferred c.mu.Unlock()
OtherGetRet(p) ==
  /\ pc[p] = "oget_ret"
  /\ other' = [other EXCEPT !.mu = FALSE]
  /\ pc' = [pc EXCEPT ![p] = "idle"]
  /\ arg' = [arg EXCEPT ![p] = NoArg]
  /\ res' = [res EXCEPT ![p] = NoRes]
  /\ UNCHANGED <<cache, mu, interval, now, nextTick, tickC, rpc, visited, rk,
                 rv, lastVal, lastAdd, dexVars, replVars, mem, own, clean>>

\* -------------------------------------------------- the callers' memory
\* A []byte is a reference to a backing array: Vals are the callers' slices,
\* mem[v] the bytes slice v holds now. CacheAdd stores the slice it is given
\* (val: data) and CacheGet returns the stored slice (data := entry.val), so
\* the bytes an entry holds are those of the caller's backing array.
CachedBytes(k) == mem[cache[k].val]

\* a caller, between calls, writes into a slice of its own (b[i] = x)
BytesWrite(p) ==
  /\ pc[p] = "idle"
  /\ \E v \in Vals, c \in Vals :
       /\ c # mem[v]
       /\ mem' = [mem EXCEPT ![v] = c]
  /\ UNCHANGED <<pc, cacheVars, dexVars, replVars, own, other, clean>>

\* a write that also lands in the registry entries holding the record the
\* caller passed or was given, as if the map held references to it
OwnWriteShared(p) ==
  /\ pc[p] = "idle"
  /\ \E st \in Stats, whole \in BOOLEAN :
       LET r == IF whole THEN st
                         ELSE [own[p] EXCEPT !.BaseExperience = st.BaseExperience]
       IN  /\ r # own[p]
           /\ own' = [own EXCEPT ![p] = r]
           /\ pokemon' = [n \in DOMAIN pokemon |->
                            IF pokemon[n] = own[p] THEN r ELSE pokemon[n]]
  /\ UNCHANGED <<pc, cacheVars, replVars, rwW, rwR, darg, dres, dlast, mem, other, clean>>

\* PokemonStats is a struct of a string and two ints, held by the caller in a
\* variable of its own: the caller, between calls, assigns the variable or
\* one of its fields
OwnWrite(p) ==
  /\ pc[p] = "idle"
  /\ \E st \in Stats, whole \in BOOLEAN :
       LET r == IF whole THEN st
                         ELSE [own[p] EXCEPT !.BaseExperience = st.BaseExperience]
       IN  /\ r # own[p]
           /\ own' = [own EXCEPT ![p] = r]
  /\ UNCHANGED <<pc, cacheVars, dexVars, replVars, mem, other, clean>>

\* PokemonAdd(name, own): the parameter pokemonStats is a copy of the caller's
\* variable, made at the call; p.mu.Lock() as in PokemonAddLock
PokemonAddLockOwn(p) ==
  /\ pc[p] = "padd_lock"
  /\ rwW = FALSE
  /\ rwR = 0
  /\ rwW' = TRUE
  /\ \E n \in Names :
       darg' = [darg EXCEPT ![p] = [name |-> n, stats |-> own[p]]]
  /\ pc' = [pc EXCEPT ![p] = "padd_write"]
  /\ UNCHANGED <<cacheVars, replVars, pokemon, rwR, dres, dlast, aliasVars>>

\* own, ok, _ = PokemonGet(name): the returned entry is copied into the
\* caller's variable; the deferred p.mu.RUnlock() as in PokemonGetRet
PokemonGetRetOwn(p) ==
  /\ pc[p] = "pget_ret"
  /\ rwR' = rwR - 1
  /\ pc' = [pc EXCEPT ![p] = "idle"]
  /\ own' = [own EXCEPT ![p] = dres[p].stats]
  /\ darg' = [darg EXCEPT ![p] = NoDarg]
  /\ dres' = [dres EXCEPT ![p] = NoDres]
  /\ UNCHANGED <<cacheVars, replVars, pokemon, rwW, dlast, mem, other, clean>>

\* ----------------------------------------------------------------- Next
Next ==
  \/ Tick
  \/ ReapStart
  \/ ReapRecv
  \/ ReapLock
  \/ ReapRange
  \/ ReapCheck
  \/ ReapUnlock
  \/ \E p \in Callers : AddCall(p)
  \/ \E p \in Callers : AddLock(p)
  \/ \E p \in Callers : AddWrite(p)
  \/ \E p \in Callers : GetCall(p)
  \/ \E p \in Callers : GetLock(p)
  \/ \E p \in Callers : GetRead(p)
  \/ \E p \in Callers : GetRet(p)

Spec == Init /\ [][Next]_vars

\* the cache with the reaper scheduled on time, one goroutine inserting and
\* another one looking up
Writer == "c1"
Reader == "c2"

NextOnTime ==
  \/ TickOnTime
  \/ ReapStart
  \/ ReapRecv
  \/ ReapLock
  \/ ReapRange
  \/ ReapCheck
  \/ ReapUnlock
  \/ AddCall(Writer)
  \/ AddLock(Writer)
  \/ AddWrite(Writer)
  \/ GetCall(Reader)
  \/ GetLock(Reader)
  \/ GetRead(Reader)
  \/ GetRet(Reader)

SpecOnTime == Init /\ [][NextOnTime]_vars

\* the callers working on the Pokedex only
NextDex ==
  \/ \E p \in Callers : PokemonAddCall(p)
  \/ \E p \in Callers : PokemonAddLock(p)
  \/ \E p \in Callers : PokemonAddWrite(p)
  \/ \E p \in Callers : PokemonGetCall(p)
  \/ \E p \in Callers : PokemonGetRLock(p)
  \/ \E p \in Callers : PokemonGetRead(p)
  \/ \E p \in Callers : PokemonGetRet(p)
  \/ \E p \in Callers : PokemonGetAllCaughtRLock(p)
  \/ \E p \in Callers : PokemonGetAllCaughtRead(p)
  \/ \E p \in Callers : PokemonGetAllCaughtRet(p)

SpecDex == Init /\ [][NextDex]_vars

\* one caller working on both stores, one call at a time, on a cache built
\* with the shortest interval, with the reaper running and the clock covering
\* its first tick
User == "c1"

InitStores == Init /\ interval = 1

NextStores ==
  \/ Advance(1, 2)
  \/ ReapStart
  \/ ReapRecv
  \/ ReapLock
  \/ ReapRange
  \/ ReapCheck
  \/ ReapUnlock
  \/ AddCall(User)
  \/ AddLock(User)
  \/ AddWrite(User)
  \/ GetCall(User)
  \/ GetLock(User)
  \/ GetRead(User)
  \/ GetRet(User)
  \/ PokemonAddCall(User)
  \/ PokemonAddLock(User)
  \/ PokemonAddWrite(User)
  \/ PokemonGetCall(User)
  \/ PokemonGetRLock(User)
  \/ PokemonGetRead(User)
  \/ PokemonGetRet(User)

SpecStores == InitStores /\ [][NextStores]_vars

\* one caller calling the methods of both stores on constructed handles and
\* on nil handles, before the ticker's first tick
NextNil ==
  \/ AddCall(User)
  \/ AddLock(User)
  \/ AddWrite(User)
  \/ GetCall(User)
  \/ GetLock(User)
  \/ GetRead(User)
  \/ GetRet(User)
  \/ PokemonAddCall(User)
  \/ PokemonAddLock(User)
  \/ PokemonAddWrite(User)
  \/ PokemonGetCall(User)
  \/ PokemonGetRLock(User)
  \/ PokemonGetRead(User)
  \/ PokemonGetRet(User)
  \/ AddNil(User)
  \/ GetNil(User)
  \/ PokemonAddNil(User)
  \/ PokemonGetNil(User)
  \/ NilRet(User)

SpecNil == Init /\ [][NextNil]_vars

\* the program: the REPL with its client, cache and Pokedex, within the first
\* interval after NewCache (the ticker has not fired yet)
NextRepl ==
  \/ ReapStart
  \/ ReplRead
  \/ ReplLoop
  \/ commandExit
  \/ commandHelp
  \/ commandMap
  \/ commandMapb
  \/ commandMapFetched
  \/ commandExplore
  \/ commandExploreFetched
  \/ commandCatch
  \/ commandCatchFetched
  \/ commandInspect
  \/ commandPokedex
  \/ FetchCacheGetLock
  \/ FetchCacheGet
  \/ FetchDo
  \/ FetchCacheAddLock
  \/ FetchCacheAdd

SpecRepl == Init /\ [][NextRepl]_vars

\* one caller of the cache that keeps the slices it passes and is given, and
\* writes into them between calls, before the ticker's first tick
NextAlias ==
  \/ AddCall(User)
  \/ AddLock(User)
  \/ AddWrite(User)
  \/ GetCall(User)
  \/ GetLock(User)
  \/ GetRead(User)
  \/ GetRet(User)
  \/ BytesWrite(User)

SpecAlias == Init /\ [][NextAlias]_vars

\* one caller of the Pokedex that keeps the record it passes and is given in
\* a variable of its own, and writes to it between calls
NextOwn ==
  \/ PokemonAddCall(User)
  \/ PokemonAddLockOwn(User)
  \/ PokemonAddWrite(User)
  \/ PokemonGetCall(User)
  \/ PokemonGetRLock(User)
  \/ PokemonGetRead(User)
  \/ PokemonGetRetOwn(User)
  \/ OwnWrite(User)

SpecOwn == Init /\ [][NextOwn]_vars

\* the cache with one caller under fair scheduling: time passes, the reaper
\* goroutine and a caller inside a call are scheduled again and again, and
\* the reaper waiting in c.mu.Lock() gets the mutex in the end although the
\* caller keeps taking it (sync.Mutex hands a starving waiter the lock)
NextLive ==
  \/ Tick
  \/ ReapStart
  \/ ReapRecv
  \/ ReapLock
  \/ ReapRange
  \/ ReapCheck
  \/ ReapUnlock
  \/ AddCall(User)
  \/ AddLock(User)
  \/ AddWrite(User)
  \/ GetCall(User)
  \/ GetLock(User)
  \/ GetRead(User)
  \/ GetRet(User)

FairLive ==
  /\ WF_vars(Tick)
  /\ WF_vars(ReapStart)
  /\ WF_vars(ReapRecv)
  /\ SF_vars(ReapLock)
  /\ WF_vars(ReapRange)
  /\ WF_vars(ReapCheck)
  /\ WF_vars(ReapUnlock)
  /\ WF_vars(AddWrite(User))
  /\ WF_vars(GetRead(User))
  /\ WF_vars(GetRet(User))

SpecLive == InitStores /\ [][NextLive]_vars /\ FairLive

\* two caches, each with its reaper, and one caller working on both, one call
\* at a time, while the clock covers the first tick of the shortest interval
NextTwo ==
  \/ Advance(1, 1)
  \/ ReapStart
  \/ ReapRecv
  \/ ReapLock
  \/ ReapRange
  \/ ReapCheck
  \/ ReapUnlock
  \/ AddCall(User)
  \/ AddLock(User)
  \/ AddWrite(User)
  \/ GetCall(User)
  \/ GetLock(User)
  \/ GetRead(User)
  \/ GetRet(User)
  \/ NewCacheOther
  \/ OtherReapStart
  \/ OtherReapRecv
  \/ OtherReapLock
  \/ OtherReapRange
  \/ OtherReapCheck
  \/ OtherReapUnlock
  \/ OtherAddCall(User)
  \/ OtherAddLock(User)
  \/ OtherAddWrite(User)
  \/ OtherGetCall(User)
  \/ OtherGetLock(User)
  \/ OtherGetRead(User)
  \/ OtherGetRet(User)

SpecTwo == InitStores /\ [][NextTwo]_vars

\* cleanInput alone, on every text of up to MaxLen characters
NextClean ==
  \/ cleanInputCall
  \/ cleanInputRet
  \/ cleanInputDone

SpecClean == Init /\ [][NextClean]_vars

\* both stores under fair scheduling: the reaper and one caller on the cache,
\* both callers on the Pokedex, always with the same key, value, name and
\* record (which lock is taken when does not depend on them), while the clock
\* covers the first tick of the shortest interval. A goroutine that can
\* take a step takes one in the end, and one waiting in Lock() or RLock()
\* gets the lock in the end although others keep taking it (sync.Mutex
\* hands a starving waiter the lock; a waiting writer of sync.RWMutex holds
\* back new readers).
AddLockOne(p) == AddLock(p) /\ arg'[p] = [key |-> "k1", val |-> 1]
GetLockOne(p) == GetLock(p) /\ arg'[p].key = "k1"
PokemonAddLockOne(p) ==
  PokemonAddLock(p) /\ darg'[p].name = "n1" /\ darg'[p].stats.ID = 1
PokemonGetRLockOne(p) == PokemonGetRLock(p) /\ darg'[p].name = "n1"

NextProgress ==
  \/ Advance(1, 1)
  \/ ReapStart
  \/ ReapRecv
  \/ ReapLock
  \/ ReapRange
  \/ ReapCheck
  \/ ReapUnlock
  \/ AddCall(User)
  \/ AddLockOne(User)
  \/ AddWrite(User)
  \/ GetCall(User)
  \/ GetLockOne(User)
  \/ GetRead(User)
  \/ GetRet(User)
  \/ \E p \in Callers : PokemonAddCall(p)
  \/ \E p \in Callers : PokemonAddLockOne(p)
  \/ \E p \in Callers : PokemonAddWrite(p)
  \/ \E p \in Callers : PokemonGetCall(p)
  \/ \E p \in Callers : PokemonGetRLockOne(p)
  \/ \E p \in Callers : PokemonGetRead(p)
  \/ \E p \in Callers : PokemonGetRet(p)

FairProgress ==
  /\ WF_vars(Advance(1, 1))
  /\ WF_vars(ReapStart)
  /\ WF_vars(ReapRecv)
  /\ SF_vars(ReapLock)
  /\ WF_vars(ReapRange)
  /\ WF_vars(ReapCheck)
  /\ WF_vars(ReapUnlock)
  /\ SF_vars(AddLockOne(User))
  /\ WF_vars(AddWrite(User))
  /\ SF_vars(GetLockOne(User))
  /\ WF_vars(GetRead(User))
  /\ WF_vars(GetRet(User))
  /\ \A p \in Callers :
       /\ SF_vars(PokemonAddLockOne(p))
       /\ WF_vars(PokemonAddWrite(p))
       /\ SF_vars(PokemonGetRLockOne(p))
       /\ WF_vars(PokemonGetRead(p))
       /\ WF_vars(PokemonGetRet(p))

SpecProgress == InitStores /\ [][NextProgress]_vars /\ FairProgress

\* a cache built by NewCache with any duration, its reaper and one caller,
\* while the clock covers the first tick of the shortest interval
NextNew ==
  \/ Advance(1, 1)
  \/ NewCacheAny
  \/ OtherReapStart
  \/ OtherReapRecv
  \/ OtherReapLock
  \/ OtherReapRange
  \/ OtherReapCheck
  \/ OtherReapUnlock
  \/ OtherAddCall(User)
  \/ OtherAddLock(User)
  \/ OtherAddWrite(User)
  \/ OtherGetCall(User)
  \/ OtherGetLock(User)
  \/ OtherGetRead(User)
  \/ OtherGetRet(User)

SpecNew == InitStores /\ [][NextNew]_vars

\* the REPL next to the clock and the reaper, for the longest interval: the
\* user pages through the listing with map, so GetLocationAreas is the
\* method that runs the fetch steps
FetchCommands == { [name |-> "map", args |-> << >>] }

ReplReadFetch == ReplRead /\ rp' = "run" /\ cmd' \in FetchCommands

NextFetch ==
  \/ Tick
  \/ ReapStart
  \/ ReapRecv
  \/ ReapLock
  \/ ReapRange
  \/ ReapCheck
  \/ ReapUnlock
  \/ ReplReadFetch
  \/ ReplLoop
  \/ commandMap
  \/ commandMapFetched
  \/ FetchCacheGetLock
  \/ FetchCacheGet
  \/ FetchDo
  \/ FetchCacheAddLock
  \/ FetchCacheAdd

\* NewCache(interval) with the longest interval
InitFetch == Init /\ interval = MaxInterval

SpecFetch == InitFetch /\ [][NextFetch]_vars

\* the client driven by the REPL and by direct calls of its methods, within
\* the first interval after NewCache
NextClient ==
  \/ ReplRead
  \/ ReplLoop
  \/ commandExit
  \/ commandHelp
  \/ commandMap
  \/ commandMapb
  \/ commandMapFetched
  \/ commandExplore
  \/ commandExploreFetched
  \/ commandCatch
  \/ commandCatchFetched
  \/ commandInspect
  \/ commandPokedex
  \/ GetLocationAreasCall
  \/ GetLocationAreaCall
  \/ GetPokemonStatsCall
  \/ FetchCacheGetNil
  \/ ClientRet
  \/ FetchCacheGetLock
  \/ FetchCacheGet
  \/ FetchDo
  \/ FetchCacheAddLock
  \/ FetchCacheAdd

SpecClient == Init /\ [][NextClient]_vars

\* the REPL on an input stream that can end at any prompt
NextEnd ==
  \/ ReplRead
  \/ ReplScanEnd
  \/ ReplEmptyContinue
  \/ ReplLoop
  \/ commandExit
  \/ commandHelp
  \/ commandMap
  \/ commandMapb
  \/ commandMapFetched
  \/ commandExplore
  \/ commandExploreFetched
  \/ commandCatch
  \/ commandCatchFetched
  \/ commandInspect
  \/ commandPokedex
  \/ FetchCacheGetLock
  \/ FetchCacheGet
  \/ FetchDo
  \/ FetchCacheAddLock
  \/ FetchCacheAdd

SpecEnd == Init /\ [][NextEnd]_vars

TypeOK ==
  /\ DOMAIN cache \subseteq Keys
  /\ mu \in BOOLEAN
  /\ now >= 0

\* --------------------------------------------------------------- claims
\* the key of the CacheGet that caller p is returning from, and the name of
\* its PokemonGet
GetKey(p) == arg[p].key
GetName(p) == darg[p].name

\* the goroutines inside a critical section of the cache mutex
InCacheCS(p) == pc[p] \in {"add_write", "get_read", "get_ret"}
Sweeping == rpc \in {"range", "check", "unlock"}

\* C1 - freshness lower bound: a CacheGet(k) that reads the map at a time
\* t' < t + interval, where t is the createdAt of the latest CacheAdd(k, v),
\* returns (v, true, nil), whatever sweeps ran in between.
C1_FreshnessLowerBound ==
  \A p \in Callers :
    (/\ pc[p] = "get_ret"
     /\ lastAdd[GetKey(p)] # NoAdd
     /\ res[p].at < lastAdd[GetKey(p)].t + interval)
    => (/\ res[p].ok
        /\ res[p].data = lastAdd[GetKey(p)].val
        /\ res[p].err = NilErr)

\* a hit on an entry inserted at an earlier time, after at least one tick
C1_Witness ==
  \E p \in Callers :
    /\ pc[p] = "get_ret"
    /\ lastAdd[GetKey(p)] # NoAdd
    /\ res[p].at > lastAdd[GetKey(p)].t
    /\ nextTick > interval + lastAdd[GetKey(p)].t
    /\ res[p].ok
    /\ res[p].data = lastAdd[GetKey(p)].val

C3_OverwriteWins ==
  \A p \in Callers :
    (/\ pc[p] = "get_ret"
     /\ lastAdd[GetKey(p)] # NoAdd
     /\ lastAdd[GetKey(p)].over
     /\ res[p].at < lastAdd[GetKey(p)].t + interval)
    => (/\ res[p].ok
        /\ res[p].data = lastAdd[GetKey(p)].val
        /\ res[p].err = NilErr
        /\ Cardinality({k \in DOMAIN cache : k = GetKey(p)}) = 1)

\* a lookup returning the second of two different values written to its key
C3_Witness ==
  \E p \in Callers :
    /\ pc[p] = "get_ret"
    /\ lastAdd[GetKey(p)] # NoAdd
    /\ lastAdd[GetKey(p)].over
    /\ res[p].ok
    /\ res[p].data = lastAdd[GetKey(p)].val

\* C4 - absence is not an error: CacheGet on a key that was never inserted or
\* was evicted since its last insert returns (nil, false, nil), PokemonGet on
\* a name that was never added returns (PokemonStats{}, false, nil), and
\* neither lookup changes its map.
C4_MissResult ==
  \A p \in Callers :
    /\ (pc[p] = "get_ret" /\ lastVal[GetKey(p)] = NilBytes)
         => res[p] = NotFound(res[p].at)
    /\ (pc[p] = "pget_ret" /\ dlast[GetName(p)] = NoDlast)
         => (/\ ~dres[p].ok
             /\ dres[p].stats = NoStats
             /\ dres[p].err = NilErr)

C4_LookupStep ==
  \E p \in Callers :
    \/ pc[p] = "get_read" /\ pc'[p] = "get_ret"
    \/ pc[p] = "pget_read" /\ pc'[p] = "pget_ret"

C4_AbsenceIsNotAnError ==
  /\ []C4_MissResult
  /\ [][C4_LookupStep => (cache' = cache /\ pokemon' = pokemon)]_vars

\* a PokemonGet missing a name while the registry holds the other one, with
\* the cache having evicted a key it held
C4_Witness ==
  \E p \in Callers :
    /\ pc[p] = "pget_ret"
    /\ dlast[GetName(p)] = NoDlast
    /\ ~dres[p].ok
    /\ pokemon # << >>
    /\ \E k \in Keys : lastAdd[k] # NoAdd /\ k \notin DOMAIN cache

\* C5 - registry overwrite: once PokemonAdd(n, r2) has replaced an earlier
\* record of n, PokemonGet(n) returns (r2, true, nil) and the list of caught
\* names holds n exactly once.
C5_RegistryOverwrite ==
  \A p \in Callers :
    /\ (pc[p] = "pget_ret" /\ dlast[GetName(p)].over)
         => (/\ dres[p].ok
             /\ dres[p].stats = dlast[GetName(p)].stats
             /\ dres[p].err = NilErr)
    /\ pc[p] = "plist_ret"
         => \A n \in Names :
              dlast[n].over =>
                Cardinality({i \in DOMAIN dres[p].names : dres[p].names[i] = n}) = 1

\* one caller reading the replaced record while the other lists the names
C5_Witness ==
  \E p, q \in Callers :
    /\ pc[p] = "pget_ret"
    /\ dlast[GetName(p)].over
    /\ dres[p].stats = dlast[GetName(p)].stats
    /\ pc[q] = "plist_ret"
    /\ \E i \in DOMAIN dres[q].names : dres[q].names[i] = GetName(p)

\* C6 - linearizability of the cache: at most one goroutine (caller or
\* reaper) is inside a critical section of the mutex, so the map is never
\* accessed concurrently, and every CacheGet(k) returns not found or the
\* value of the latest CacheAdd(k) before it in lock order.
C6_Linearizable ==
  /\ Cardinality({p \in Callers : InCacheCS(p)}) + (IF Sweeping THEN 1 ELSE 0) <= 1
  /\ \A p \in Callers :
       pc[p] = "get_ret" =>
         \/ res[p] = NotFound(res[p].at)
         \/ res[p].ok /\ res[p].data = lastVal[GetKey(p)] /\ res[p].err = NilErr

\* a hit while the other caller waits to write and the reaper waits to sweep
C6_Witness ==
  \E p, q \in Callers :
    /\ pc[p] = "get_ret"
    /\ res[p].ok
    /\ pc[q] = "add_lock"
    /\ rpc = "lock"

\* C7 - sweep atomicity: while a sweep is between taking and releasing the
\* mutex no CacheAdd or CacheGet is inside its critical section, so every
\* lookup reads the map before a sweep's first check or after its last delete.
C7_SweepAtomic ==
  /\ Sweeping => \A p \in Callers : ~InCacheCS(p)
  /\ (\E p \in Callers : InCacheCS(p)) => visited = {}

\* a sweep that has deleted one key and still has another to check, with
\* both callers waiting for the mutex
C7_Witness ==
  /\ rpc = "range"
  /\ visited # {}
  /\ visited \ DOMAIN cache # {}
  /\ DOMAIN cache \ visited # {}
  /\ \E p, q \in Callers : pc[p] = "add_lock" /\ pc[q] = "get_lock"

\* C8 - no clobbering of a fresh insert: a key leaves the map only in a sweep's
\* check of that key, made on the entry the map holds at that moment, and only
\* when the age of that entry is >= interval.
C8_DeleteStep(k) ==
  /\ rpc = "check"
  /\ rk = k
  /\ rv = cache[k]
  /\ now - cache[k].createdAt >= interval

C8_NoClobber ==
  [][\A k \in Keys :
       (k \in DOMAIN cache /\ k \notin DOMAIN cache') => C8_DeleteStep(k)]_vars

\* a sweep has visited, and kept, an entry that replaced another one at this
\* very instant, at or after the time of the tick the sweep answers
C8_Witness ==
  \E k \in Keys :
    /\ rpc = "range"
    /\ k \in visited
    /\ k \in DOMAIN cache
    /\ lastAdd[k] # NoAdd
    /\ lastAdd[k].over
    /\ cache[k].createdAt = now
    /\ now >= interval

\* C9 - read-your-writes: a CacheGet(k) by the caller whose CacheAdd(k, v) is
\* the latest insert of k, reading less than interval after that insert's
\* createdAt, returns (v, true, nil).
C9_ReadYourWrites ==
  \A p \in Callers :
    (/\ pc[p] = "get_ret"
     /\ lastAdd[GetKey(p)] # NoAdd
     /\ lastAdd[GetKey(p)].by = p
     /\ res[p].at < lastAdd[GetKey(p)].t + interval)
    => res[p] = Found(NewEntry(lastAdd[GetKey(p)].t, lastAdd[GetKey(p)].val),
                      res[p].at)

\* a caller reads back its own insert after the other caller wrote the other
\* key and a sweep went by
C9_Witness ==
  \E p, q \in Callers : \E k \in Keys :
    /\ pc[p] = "get_ret"
    /\ lastAdd[GetKey(p)] # NoAdd
    /\ lastAdd[GetKey(p)].by = p
    /\ res[p].ok
    /\ k # GetKey(p)
    /\ lastAdd[k] # NoAdd
    /\ lastAdd[k].by = q
    /\ q # p
    /\ lastAdd[k].t >= lastAdd[GetKey(p)].t
    /\ nextTick > interval + lastAdd[GetKey(p)].t

\* C10 - lookups are not touches: no step of a CacheGet changes the map, and
\* the createdAt of a key's entry changes only in the map write of a CacheAdd
\* on that key.
C10_GetStep ==
  \E p \in Callers :
    /\ pc[p] \in {"get_lock", "get_read", "get_ret"}
    /\ pc'[p] # pc[p]

C10_AddStep(k) ==
  \E p \in Callers : pc[p] = "add_write" /\ arg[p].key = k /\ pc'[p] = "idle"

C10_LookupsAreNotTouches ==
  [][/\ C10_GetStep => cache' = cache
     /\ \A k \in Keys :
          (/\ k \in DOMAIN cache
           /\ k \in DOMAIN cache'
           /\ cache'[k].createdAt # cache[k].createdAt) => C10_AddStep(k)]_vars

\* a lookup has found an entry older than the current time and the map still
\* holds it with the createdAt it had
C10_Witness ==
  \E p \in Callers :
    /\ pc[p] = "get_ret"
    /\ res[p].ok
    /\ res[p].at > res[p].createdAt
    /\ GetKey(p) \in DOMAIN cache
    /\ cache[GetKey(p)].createdAt = res[p].createdAt
\* the goroutines inside the write section and inside a read section of the
\* registry's RWMutex
InDexWrite(p) == pc[p] = "padd_write"
InDexRead(p) == pc[p] \in {"pget_read", "pget_ret", "plist_read", "plist_ret"}

\* C11 - reader/writer discipline of the registry: a PokemonAdd inside its
\* critical section excludes every other PokemonAdd and every PokemonGet from
\* theirs, and the lock's state says who is inside: the write flag is set
\* exactly when an add is inside, the reader count is the number of lookups
\* inside.
C11_ReaderWriterDiscipline ==
  /\ Cardinality({p \in Callers : InDexWrite(p)}) <= 1
  /\ (\E p \in Callers : InDexWrite(p)) => \A q \in Callers : ~InDexRead(q)
  /\ rwW = (\E p \in Callers : InDexWrite(p))
  /\ rwR = Cardinality({p \in Callers : InDexRead(p)})

\* two PokemonGet calls inside their read sections at the same time, on a
\* registry an add has written to
C11_Witness ==
  /\ \A p \in Callers : pc[p] \in {"pget_read", "pget_ret"}
  /\ rwR = 2
  /\ pokemon # << >>
\* C12 - upsert is all-or-nothing per key: every record the registry holds is
\* a whole record some PokemonAdd was given, and a PokemonGet(n), also one
\* running while a PokemonAdd is under way, returns the whole record the
\* registry holds for n at that moment (the one before or the one after the
\* add) or not found when it holds none.
C12_AllOrNothing ==
  /\ \A n \in DOMAIN pokemon : pokemon[n] \in Stats /\ pokemon[n] = dlast[n].stats
  /\ \A p \in Callers :
       pc[p] = "pget_ret" =>
         IF GetName(p) \in DOMAIN pokemon
           THEN /\ dres[p].ok
                /\ dres[p].stats \in Stats
                /\ dres[p].stats = pokemon[GetName(p)]
           ELSE /\ ~dres[p].ok
                /\ dres[p].stats = NoStats

\* a PokemonGet(n) returns the record that replaced an earlier one while the
\* other caller's PokemonAdd waits for the lock
C12_Witness ==
  \E p, q \in Callers :
    /\ pc[p] = "pget_ret"
    /\ dres[p].ok
    /\ dlast[GetName(p)].over
    /\ pc[q] = "padd_lock"
\* C13 - registry invariant over the REPL's commands: every name in the
\* registry was caught (a catch fetched its stats without error and rolled a
\* success); the registry changes only in the step of a catch that prints
\* "was caught", by the store of the fetched stats under the command's
\* argument, so a catch without argument, with a failed fetch or with a
\* failed roll, and every other command, leave it as it is.
C13_CatchStep ==
  /\ Fetched("catch")
  /\ Len(cmd.args) > 0
  /\ fetch.err = NilErr
  /\ out' = CatchOut(cmd.args[1], TRUE)
  /\ cmd.args[1] \in caught'
  /\ pokemon' = MapStore(pokemon, cmd.args[1], fetch.body.stats)

C13_RegistryInvariant ==
  /\ [](DOMAIN pokemon \subseteq caught)
  /\ [][pokemon' # pokemon => C13_CatchStep]_vars

\* a catch has escaped, leaving its name out of a registry that holds the
\* name of an earlier catch
C13_Witness ==
  /\ rp = "done"
  /\ cmd.name = "catch"
  /\ Len(cmd.args) > 0
  /\ out = CatchOut(cmd.args[1], FALSE)
  /\ cmd.args[1] \notin DOMAIN pokemon
  /\ DOMAIN pokemon # {}
  /\ DOMAIN pokemon = caught
\* C14 - InvalidReceiver: CacheAdd, CacheGet, PokemonAdd and PokemonGet called
\* on a nil handle return an error, CacheGet and PokemonGet with found = false
\* and the zero result; no caller panics, and the call changes neither a map
\* nor a lock.
C14_NilResult ==
  \A p \in Callers :
    /\ pc[p] # "panic"
    /\ pc[p] = "add_nil" => res[p].err # NilErr
    /\ pc[p] = "get_nil" =>
         res[p].err # NilErr /\ ~res[p].ok /\ res[p].data = NilBytes
    /\ pc[p] = "padd_nil" => dres[p].err # NilErr
    /\ pc[p] = "pget_nil" =>
         dres[p].err # NilErr /\ ~dres[p].ok /\ dres[p].stats = NoStats

C14_NilStep ==
  \E p \in Callers :
    \/ pc'[p] \in {"add_nil", "get_nil", "padd_nil", "pget_nil"}
    \/ pc[p] \in {"add_nil", "get_nil", "padd_nil", "pget_nil"}

C14_InvalidReceiver ==
  /\ []C14_NilResult
  /\ [][C14_NilStep =>
          /\ cache' = cache /\ mu' = mu
          /\ pokemon' = pokemon /\ rwW' = rwW /\ rwR' = rwR]_vars

\* a CacheGet on a nil handle has returned its error while both stores hold
\* entries
C14_Witness ==
  \E p \in Callers :
    /\ pc[p] = "get_nil"
    /\ res[p].err = NilReceiver("cacheGet")
    /\ cache # << >>
    /\ pokemon # << >>
\* C15 - insert and upsert always succeed on a constructed store: the step in
\* which a CacheAdd(k, v) returns leaves no error with its caller and the map
\* holding v under k, also when k was there before; the same for
\* PokemonAdd(n, r) and the registry.
C15_AddReturns(p) == pc[p] = "add_write" /\ pc'[p] = "idle"
C15_PokemonAddReturns(p) == pc[p] = "padd_write" /\ pc'[p] = "idle"

C15_AddAlwaysSucceeds ==
  [][\A p \in Callers :
       /\ C15_AddReturns(p) =>
            /\ res'[p].err = NilErr
            /\ arg[p].key \in DOMAIN cache'
            /\ cache'[arg[p].key] = NewEntry(now, arg[p].val)
       /\ C15_PokemonAddReturns(p) =>
            /\ dres'[p].err = NilErr
            /\ darg[p].name \in DOMAIN pokemon'
            /\ pokemon'[darg[p].name] = darg[p].stats]_vars

\* a CacheAdd and a PokemonAdd have each replaced an earlier value, and both
\* maps hold the new ones
C15_Witness ==
  /\ \A p \in Callers : pc[p] = "idle"
  /\ \E k \in Keys :
       /\ lastAdd[k] # NoAdd
       /\ lastAdd[k].over
       /\ k \in DOMAIN cache
       /\ cache[k].val = lastAdd[k].val
  /\ \E n \in Names :
       /\ dlast[n].over
       /\ n \in DOMAIN pokemon
       /\ pokemon[n] = dlast[n].stats

\* C16: cache entries are never shared outside the store: a change the caller
\* makes to a byte sequence it passed to CacheAdd(k, v) or was given by
\* CacheGet(k) changes the bytes of no entry, so a later CacheGet(k) returns
\* what it returned before the change.
C16_CallerWrites == mem' # mem
C16_NeverShared ==
  [][C16_CallerWrites =>
       \A k \in DOMAIN cache :
         /\ k \in DOMAIN cache'
         /\ mem'[cache'[k].val] = CachedBytes(k)]_vars

\* C17: registry records are copied in and out: every registered record is
\* the record as it was when PokemonAdd was given it, and a change the caller
\* makes to the record it passed to PokemonAdd(n, r) or was given by
\* PokemonGet(n) leaves the registry, and so what a later PokemonGet(n)
\* returns, as it was.
C17_CallerWrites == own' # own /\ pc' = pc
C18_Running == rpc \in {"start", "wait", "lock", "range", "check", "unlock"}
C18_LoopsBack ==
  /\ rpc = "range" /\ DOMAIN cache \ visited = {} => rpc' \in {"range", "unlock"}
  /\ rpc = "unlock" => rpc' \in {"unlock", "wait"}
C18_TickOwed(k, t) ==
  /\ k \in DOMAIN cache
  /\ cache[k].createdAt = t
  /\ rpc # "start"
  /\ nextTick <= MaxTime
  /\ nextTick >= t + interval
C18_Gone(k, t) == k \notin DOMAIN cache \/ cache[k].createdAt # t
C18_ReaperRunsForever ==
  /\ []C18_Running
  /\ [][C18_LoopsBack]_vars
  /\ (tickC = 1) ~> (rpc = "unlock")
  /\ \A k \in Keys : \A t \in 0..MaxTime :
       C18_TickOwed(k, t) ~> C18_Gone(k, t)
\* a sweep has evicted an entry, left the map empty and is about to go back
\* to waiting for the next tick, which is still to come
C18_Witness ==
  /\ rpc = "unlock"
  /\ rk # ""
  /\ rk \notin DOMAIN cache
  /\ DOMAIN cache = {}
  /\ nextTick <= MaxTime

\* C19: two caches are independent: a step of CacheAdd, CacheGet or the sweep
\* on one cache leaves the map, mutex, interval, ticker and reaper of the
\* other as they are, and an operation waiting in Lock() on one cache can
\* go on as soon as that cache's own mutex is free, whoever holds the other's.
C19_ThisCache == <<cache, mu, interval, nextTick, tickC, rpc, visited, rk, rv>>
C19_Frame ==
  /\ other' # other /\ now' = now => C19_ThisCache' = C19_ThisCache
  /\ C19_ThisCache' # C19_ThisCache /\ now' = now => other' = other
C19_NoWait ==
  /\ \A p \in Callers :
       /\ pc[p] = "add_lock" /\ ~mu => ENABLED AddLock(p)
       /\ pc[p] = "get_lock" /\ ~mu => ENABLED GetLock(p)
       /\ pc[p] = "oadd_lock" /\ ~other.mu => ENABLED OtherAddLock(p)
       /\ pc[p] = "oget_lock" /\ ~other.mu => ENABLED OtherGetLock(p)
  /\ rpc = "lock" /\ ~mu => ENABLED ReapLock
  /\ other.rpc = "lock" /\ ~other.mu => ENABLED OtherReapLock
C19_InstanceIndependence == []C19_NoWait /\ [][C19_Frame]_vars
\* both mutexes are held at once, an insert into the second cache took its
\* lock while the first cache's was held, and the caches hold different
\* entries under the same key
C19_Witness ==
  /\ mu
  /\ other.mu
  /\ pc[User] = "oadd_write"
  /\ "k1" \in DOMAIN cache
  /\ "k1" \in DOMAIN other.cache
  /\ cache["k1"] # other.cache["k1"]
  /\ interval # other.interval

\* C20: cleanInput returns the whitespace-separated words of its input, in
\* order and lowercased: the i-th word is the i-th maximal run of characters
\* other than white space, with its upper-case letters in lower case and its
\* punctuation in place; so no word is empty or holds white space, leading,
\* trailing and repeated white space gives no word, and the empty text and
\* a text of white space alone give the empty list.
C20_Low(c) == IF c = "B" THEN "b" ELSE c
C20_RunStarts(t) ==
  {i \in 1..Len(t) : ~IsSpace(t[i]) /\ (i = 1 \/ IsSpace(t[i - 1]))}
C20_RunEnd(t, i) ==
  CHOOSE j \in i..Len(t) :
    /\ \A m \in i..j : ~IsSpace(t[m])
    /\ j = Len(t) \/ IsSpace(t[j + 1])
C20_Rank(t, i) == Cardinality({s \in C20_RunStarts(t) : s <= i})
C20_Run(t, i) == [m \in 1..(C20_RunEnd(t, i) - i + 1) |-> C20_Low(t[i + m - 1])]
C20_WordsOf(t, w) ==
  /\ Len(w) = Cardinality(C20_RunStarts(t))
  /\ \A i \in C20_RunStarts(t) : w[C20_Rank(t, i)] = C20_Run(t, i)
  /\ \A j \in 1..Len(w) : Len(w[j]) > 0 /\ \A m \in 1..Len(w[j]) : ~IsSpace(w[j][m])
  /\ (\A i \in 1..Len(t) : IsSpace(t[i])) => w = << >>
C20_CleanInputWords ==
  clean.pc = "returned" => C20_WordsOf(clean.text, clean.words)
\* cleanInput has returned the two words of a text with repeated white
\* space, an upper-case letter and punctuation
C20_Witness ==
  /\ clean.pc = "returned"
  /\ clean.text = <<"B", "!", " ", "\t", "a">>
  /\ clean.words = << <<"b", "!">>, <<"a">> >>

\* C21: no I/O under a lock: while the client performs the HTTP request and
\* reads and decodes the response, its goroutine holds neither the cache
\* mutex nor the registry lock; it holds the cache mutex only for the map
\* read of CacheGet and the map write of CacheAdd. (In SpecRepl the REPL is
\* the only goroutine that takes a lock, so a held lock is held by it.)
C21_NoIOUnderLock ==
  /\ rp = "f_http" => ~mu /\ ~rwW /\ rwR = 0
  /\ mu <=> rp \in {"f_get", "f_add"}
\* the HTTP request of a miss is under way while the cache holds earlier
\* responses
C21_Witness ==
  /\ rp = "f_http"
  /\ fetch.url \notin DOMAIN cache
  /\ DOMAIN cache # {}

\* C22: sweep postcondition: the check of an entry deletes it when its age at
\* that moment is >= interval and leaves the map as it is otherwise; while the
\* sweep holds the mutex nothing is added to the map and no entry changes its
\* value or createdAt; and when the sweep releases the mutex every entry
\* still in the map has been checked, the keys checked and gone being those
\* whose check deleted them.
C22_CheckStep ==
  rpc = "check" /\ rpc' # "check" =>
    /\ rk \in DOMAIN cache
    /\ cache' = IF now - cache[rk].createdAt >= interval
                  THEN MapDelete(cache, rk) ELSE cache
C22_NoOtherChange ==
  Sweeping =>
    /\ \A k \in DOMAIN cache' : k \in DOMAIN cache /\ cache'[k] = cache[k]
    /\ rpc # "check" => cache' = cache
C22_AtUnlock == rpc = "unlock" => DOMAIN cache \subseteq visited
C22_SweepPostcondition ==
  /\ []C22_AtUnlock
  /\ [][C22_CheckStep /\ C22_NoOtherChange]_vars
\* a sweep is about to release the mutex having deleted one entry and kept
\* another, which was younger than interval at its check
C22_Witness ==
  /\ rpc = "unlock"
  /\ visited \ DOMAIN cache # {}
  /\ \E k \in visited \cap DOMAIN cache : now - cache[k].createdAt < interval

\* C23 as stated: the interval never changes and the ticks come at
\* construction + interval, construction + 2 * interval, ... (NewCache
\* returns at time 0), whatever CacheAdd, CacheGet and evictions happen.
C23_FromConstruction ==
  /\ interval \in Intervals
  /\ nextTick # 0 => nextTick % interval = 0

\* C23, amended: the interval never changes; the ticker is created once, by
\* the reaper goroutine at the time it first runs, with its first tick one
\* interval later; from then on the next tick moves only when the clock
\* reaches it, by exactly interval, and it is never further than interval
\* away; no CacheAdd, CacheGet or eviction sets the next tick or the pending
\* tick.
C23_TickerStep ==
  /\ interval' = interval
  /\ nextTick' # nextTick =>
       \/ rpc = "start" /\ rpc' = "wait" /\ nextTick' = now + interval
       \/ /\ now' = nextTick
          /\ nextTick' = nextTick + interval
          /\ tickC' = 1
  /\ tickC' # tickC =>
       \/ now' = nextTick /\ tickC' = 1
       \/ rpc = "wait" /\ rpc' = "lock" /\ tickC' = 0
C23_NextTickNear ==
  IF rpc = "start" THEN nextTick = 0
                   ELSE now < nextTick /\ nextTick <= now + interval
C23_ConstantCadence == []C23_NextTickNear /\ [][C23_TickerStep]_vars
\* the ticker was created late, an entry was then inserted, and the next tick
\* is where the ticker's creation put it
C23_Witness ==
  /\ rpc = "wait"
  /\ nextTick % interval # 0
  /\ \E k \in DOMAIN cache : cache[k].createdAt > nextTick - interval

\* C24: exactly one reaper per cache: NewCache starts one reaper goroutine for
\* the cache it returns, and no CacheAdd, CacheGet or sweep on that cache
\* starts another: the cache has one reaper, at one statement of reapLoop, in
\* every state from its construction on.
C24_ReaperCount ==
  /\ other.reapers = IF other.made THEN 1 ELSE 0
  /\ other.made => other.rpc \in {"start", "wait", "lock", "range", "check", "unlock"}
C24_StartedOnce ==
  other'.reapers # other.reapers => ~other.made /\ other'.made
C24_OneReaper == []C24_ReaperCount /\ [][C24_StartedOnce]_vars
\* the cache built by NewCache has been inserted into and looked up, and its
\* reaper is finishing a sweep that evicted an entry
C24_Witness ==
  /\ other.made
  /\ other.reapers = 1
  /\ other.rpc = "unlock"
  /\ other.rk # ""
  /\ other.rk \notin DOMAIN other.cache
  /\ pc[User] = "oget_lock"

\* C25: lock release and progress: a lock is held exactly while a goroutine is
\* between the Lock() and the return of a method (or between the Lock() and
\* Unlock() of a sweep), so a returned call and a reaper waiting for its tick
\* hold nothing; no goroutine holds two locks; and under fair scheduling
\* every call returns and every sweep that has its tick gets back to waiting.
C25_LocksOf(p) ==
  (IF InCacheCS(p) THEN 1 ELSE 0) + (IF InDexWrite(p) \/ InDexRead(p) THEN 1 ELSE 0)
C25_Released ==
  /\ mu <=> (Sweeping \/ \E p \in Callers : InCacheCS(p))
  /\ rwW <=> \E p \in Callers : InDexWrite(p)
  /\ rwR = Cardinality({p \in Callers : InDexRead(p)})
  /\ \A p \in Callers : C25_LocksOf(p) <= 1
C25_LockReleaseAndProgress ==
  /\ []C25_Released
  /\ \A p \in Callers : (pc[p] # "idle") ~> (pc[p] = "idle")
  /\ (rpc = "lock") ~> (rpc = "wait")
\* a writer of the registry waits for a reader to leave, while the sweep holds
\* the cache mutex
C25_Witness ==
  /\ Sweeping
  /\ pc["c1"] = "pget_read"
  /\ pc["c2"] = "padd_lock"

\* C26: per-key frame of insert: the step in which CacheAdd(k, v) writes the
\* map leaves every other key as it was: present or absent as before, with
\* the same value and createdAt; so every key in the map holds the value of
\* its own latest insert, and a CacheGet that finds a key returns that value.
C26_InsertStep(p) == pc[p] = "add_write" /\ pc'[p] = "idle"
C26_Frame ==
  \A p \in Callers :
    C26_InsertStep(p) =>
      /\ arg[p].key \in DOMAIN cache'
      /\ \A k2 \in Keys \ {arg[p].key} :
           /\ k2 \in DOMAIN cache' <=> k2 \in DOMAIN cache
           /\ k2 \in DOMAIN cache => cache'[k2] = cache[k2]
C26_OwnValue ==
  /\ \A k \in DOMAIN cache : cache[k].val = lastVal[k]
  /\ \A p \in Callers :
       pc[p] = "get_ret" /\ res[p].ok => res[p].data = lastVal[GetKey(p)]
C26_PerKeyFrame == []C26_OwnValue /\ [][C26_Frame]_vars
\* two keys were inserted with two values, and a lookup of one of them
\* returns its own value
C26_Witness ==
  /\ DOMAIN cache = Keys
  /\ cache["k1"].val # cache["k2"].val
  /\ pc[User] = "get_ret"
  /\ res[User].ok
  /\ res[User].data = cache[GetKey(User)].val

\* C27: registry monotonicity: the registry is empty when NewPokedex returns,
\* no step removes a name from it, and so every name that was ever added is
\* found by every later PokemonGet: once a PokemonGet(n) has returned
\* found = true, all later ones do.
C27_Added(n) == dlast[n].stats # NoStats
C27_FoundForGood ==
  /\ \A n \in Names : C27_Added(n) => n \in DOMAIN pokemon
  /\ \A p \in Callers :
       pc[p] = "pget_ret" =>
         (dres[p].ok <=> C27_Added(GetName(p)))
C27_RegistryMonotone ==
  /\ pokemon = << >>
  /\ []C27_FoundForGood
  /\ [][DOMAIN pokemon \subseteq DOMAIN pokemon']_vars
\* a lookup finds a name whose record was overwritten, after the other name
\* was added as well, while the other caller is adding again
C27_Witness ==
  /\ pc["c1"] = "pget_ret"
  /\ dres["c1"].ok
  /\ dlast[GetName("c1")].over
  /\ DOMAIN pokemon = Names
  /\ pc["c2"] = "padd_lock"

\* C28: construction requires a positive interval: NewCache rejects a zero or
\* negative interval, so every cache it returns has a positive interval and
\* a reaper that does not fail on its ticker.
C28_PositiveInterval ==
  other.made => other.interval > 0 /\ other.rpc # "panic"

\* C29: read-through on hit.  When the looked-up URL is in the cache, the
\* lookup step ends the fetch with the result decoded from the cached body
\* (an error when the body does not decode), leaving the cache as it was;
\* the HTTP request and the cache write are only ever reached with a URL that
\* is not in the cache.
C29_HitStep ==
  (rp = "f_get" /\ fetch.url \in DOMAIN cache /\ rp' # rp) =>
    /\ rp' = "f_done"
    /\ cache' = cache
    /\ fetch'.url = fetch.url
    /\ fetch'.body = cache[fetch.url].val
    /\ (fetch'.err = NilErr) = (cache[fetch.url].val # Garbage)

C29_NoRequestOnHit ==
  rp \in {"f_http", "f_add_lock", "f_add"} => fetch.url \notin DOMAIN cache

C29_ReadThroughOnHit == []C29_NoRequestOnHit /\ [][C29_HitStep]_vars

\* a second catch of a species already in the Pokedex, whose fetch ended on
\* the cached body: the first catch cached it and nothing has removed it
C29_Witness ==
  /\ rp = "f_done"
  /\ cmd.name = "catch"
  /\ Len(cmd.args) > 0
  /\ fetch.url = PokemonURL(cmd.args[1])
  /\ \E n \in DOMAIN pokemon : fetch.url = PokemonURL(n)
  /\ fetch.url \in DOMAIN cache
  /\ fetch.err = NilErr
  /\ fetch.body = cache[fetch.url].val
  /\ fetch.body = ServerBody(fetch.url)

\* C30: populate on miss.  The insert that ends a successful miss stores the
\* body the server sent under exactly the URL that was looked up
\* and touches no other entry; an entry leaves the cache only once it is at
\* least one interval old, and is never replaced by another body; and a
\* lookup that finds the entry ends the fetch with the server's body for that
\* URL, free of error, with no request.  So a fetch of the same URL made less
\* than one interval after the insert is served from the cache with the same
\* result.
C30_StoreStep ==
  (rp = "f_add" /\ rp' # rp) =>
    /\ fetch.body = ServerBody(fetch.url)
    /\ fetch.url \in DOMAIN cache'
    /\ cache'[fetch.url] = NewEntry(now, fetch.body)
    /\ \A u \in DOMAIN cache' \ {fetch.url} : u \in DOMAIN cache /\ cache'[u] = cache[u]
    /\ \A u \in DOMAIN cache \ {fetch.url} : u \in DOMAIN cache'
    /\ fetch' = fetch
    /\ rp' = "f_done"

C30_KeptWhileYoung ==
  \A u \in DOMAIN cache :
    IF u \in DOMAIN cache'
      THEN cache'[u] = cache[u]
      ELSE now - cache[u].createdAt >= interval

C30_ServedStep ==
  (rp = "f_get" /\ fetch.url \in DOMAIN cache /\ rp' # rp) =>
    /\ rp' = "f_done"
    /\ fetch'.body = ServerBody(fetch.url)
    /\ fetch'.err = NilErr

C30_CachedIsServed ==
  \A u \in DOMAIN cache :
    /\ Served(u)
    /\ cache[u].val = ServerBody(u)
    /\ cache[u].createdAt <= now

C30_PopulateOnMiss ==
  /\ []C30_CachedIsServed
  /\ [][C30_StoreStep /\ C30_KeptWhileYoung /\ C30_ServedStep]_vars

\* a later fetch of a URL is in its lookup, less than one interval after the
\* insert that stored the URL's body, and the entry is there
C30_Witness ==
  /\ rp = "f_get"
  /\ fetch.url \in DOMAIN cache
  /\ cache[fetch.url].createdAt < now
  /\ now - cache[fetch.url].createdAt < interval
  /\ cache[fetch.url].val = ServerBody(fetch.url)

\* C31: a failed fetch does not populate the cache.  A request step that
\* fails (the request, the status, the read or the decoding) ends the fetch
\* with an error; no step of a fetch before its insert changes the cache, and
\* the insert is only reached free of error with a decoded body; hence every
\* body in the cache is one that decoded.
C31_FailStep ==
  (rp = "f_http" /\ rp' = "f_done") =>
    /\ fetch'.err # NilErr
    /\ fetch'.body \in {Garbage, NoBody}
    /\ cache' = cache

C31_NoWriteBeforeInsert ==
  rp \in {"f_get_lock", "f_get", "f_http", "f_add_lock"} => cache' = cache

C31_InsertDecoded ==
  rp \in {"f_add_lock", "f_add"} =>
    /\ fetch.err = NilErr
    /\ fetch.body \notin {Garbage, NoBody}

C31_CachedDecoded ==
  \A u \in DOMAIN cache : cache[u].val \notin {Garbage, NoBody}

C31_FailedFetchLeavesCache ==
  /\ [](C31_InsertDecoded /\ C31_CachedDecoded)
  /\ [][C31_FailStep /\ C31_NoWriteBeforeInsert]_vars

\* a fetch of a resource the service has, ended by an error, with the URL
\* still absent from a cache that holds other bodies
C31_Witness ==
  /\ rp = "f_done"
  /\ fetch.err # NilErr
  /\ Served(fetch.url)
  /\ fetch.url \notin DOMAIN cache
  /\ cache # << >>

\* the page most recently displayed, read off the cursors it left behind (the
\* links of page k name pages k+1 and k-1); 0 when no page was displayed
C32_LastPage ==
  IF cfg.NextURL # "" THEN PageOf(cfg.NextURL) - 1
  ELSE IF cfg.PrevURL # "" THEN PageOf(cfg.PrevURL) + 1
  ELSE 0

\* what a listing command prints for page i
C32_PageOut(i) == <<"Location Areas:", "-  " \o AreaOfPage(i)>>

\* C32: map after page k lists page k+1 and mapb after page k lists page
\* k-1, at the first and at the last page too: there it lists no page, since
\* the chain has no page 0 and no page NumPages+1.
C32_Step ==
  (rp = "f_done" /\ cmd.name \in {"map", "mapb"} /\ fetch.err = NilErr
     /\ C32_LastPage # 0 /\ rp' = "done") =>
    LET target == IF cmd.name = "map" THEN C32_LastPage + 1 ELSE C32_LastPage - 1
    IN  /\ target \in 1..NumPages
        /\ out' = C32_PageOut(target)

C32_NextAndPreviousPage == [][C32_Step]_vars

\* C33: pagination cursor update.  The step that ends a successful map or
\* mapb sets NextURL to the next link of the page that was fetched and
\* PrevURL to its previous link, the empty string standing for a null link;
\* the step that ends a failed one, and every other step, leaves both
\* cursors as they were.
C33_Links(url) ==
  [NextURL |-> IF PageOf(url) < NumPages THEN PageURL(PageOf(url) + 1) ELSE "",
   PrevURL |-> IF PageOf(url) > 1 THEN PageURL(PageOf(url) - 1) ELSE ""]

C33_Step ==
  IF rp = "f_done" /\ cmd.name \in {"map", "mapb"} /\ fetch.err = NilErr
       /\ rp' = "done"
    THEN cfg' = C33_Links(fetch.url)
    ELSE cfg' = cfg

C33_CursorUpdate == [][C33_Step]_vars

\* a map that listed the last page: the null next link became the empty
\* string and the previous link is the cursor
C33_Witness ==
  /\ rp = "done"
  /\ cmd.name = "map"
  /\ fetch.err = NilErr
  /\ PageOf(fetch.url) = NumPages
  /\ cfg.NextURL = ""
  /\ cfg.PrevURL = PageURL(NumPages - 1)

\* the odds the comments of commandCatch document, in percent
C34_Documented(baseExperience) ==
  CASE baseExperience = 60 -> 50
    [] baseExperience = 180 -> 25
    [] baseExperience = 1140 -> 5

\* the rolls that catch a creature
C34_Succeeding(baseExperience) ==
  {catchRoll \in 0..(RollBound - 1) : catchRoll < CatchRate(baseExperience)}

\* C34: catch odds as documented.  When a catch has fetched a creature of
\* base experience 60, 180 or 1140, the succeeding rolls over the possible
\* rolls are 50%, 25% and 5%.
C34_DocumentedOdds ==
  (rp = "f_done" /\ cmd.name = "catch" /\ fetch.err = NilErr
     /\ fetch.body.stats.BaseExperience \in {60, 180, 1140}) =>
    Cardinality(C34_Succeeding(fetch.body.stats.BaseExperience)) * 100
      = C34_Documented(fetch.body.stats.BaseExperience) * RollBound

\* C35: inspect reflects catches.  inspect with name n prints the record the
\* service has for n exactly when an earlier catch with argument n succeeded,
\* and else the line saying the creature has not been caught, which is no
\* error; the step of inspect and the step of pokedex end the command at
\* once, with the registry, the cache and the cursors as they were.
C35_InspectStep ==
  (rp = "run" /\ cmd.name = "inspect" /\ Len(cmd.args) > 0 /\ rp' # rp) =>
    IF cmd.args[1] \in caught
      THEN /\ Len(out') > 1
           /\ out'[1] = "Name: " \o ServerBody(PokemonURL(cmd.args[1])).stats.Name
           /\ pokemon[cmd.args[1]] = ServerBody(PokemonURL(cmd.args[1])).stats
      ELSE out' = <<"you have not caught that pokemon">>

C35_Frame ==
  (rp = "run" /\ cmd.name \in {"inspect", "pokedex"} /\ rp' # rp) =>
    /\ rp' = "done"
    /\ pokemon' = pokemon
    /\ cache' = cache
    /\ cfg' = cfg
    /\ fetch' = fetch

C35_InspectReflectsCatches == [][C35_InspectStep /\ C35_Frame]_vars

\* an inspect of a caught creature has printed its record, and another
\* creature is still not caught
C35_Witness ==
  /\ rp = "done"
  /\ cmd.name = "inspect"
  /\ Len(cmd.args) > 0
  /\ cmd.args[1] \in caught
  /\ caught # Names
  /\ Len(out) > 1
  /\ out[1] = "Name: " \o cmd.args[1]

\* a line of nothing but white space, and the words of a line after the first
C36_Blank(line) == \A i \in DOMAIN line : IsSpace(line[i])
C36_Rest(words) == [i \in 1..(Len(words) - 1) |-> Join(words[i + 1])]

\* C36: REPL dispatch.  A blank line has no words, so it leaves the loop at
\* the prompt.  A step away from the prompt comes from a line that is not
\* blank: its first word is a registered command, which is then run with the
\* other words as its arguments, or "Invalid command" is printed and the
\* pass is over; either way cursors, cache and registry are as before.  A
\* command runs only from the prompt, so once per line; a fetch error is
\* printed; and the pass once over, the loop returns to the prompt with
\* cursors, cache and registry as the command left them.
C36_BlankRunsNothing ==
  \A line \in Lines : C36_Blank(line) => cleanInput(line) = << >>

C36_ReadStep ==
  (rp = "prompt" /\ rp' # rp) =>
    /\ \E line \in Lines :
         /\ ~C36_Blank(line)
         /\ LET words == cleanInput(line)
            IN  IF Join(words[1]) \in CommandNames
                  THEN /\ rp' = "run"
                       /\ cmd' = [name |-> Join(words[1]), args |-> C36_Rest(words)]
                  ELSE /\ rp' = "done"
                       /\ out' = <<"Invalid command">>
                       /\ cmd' = cmd
    /\ cfg' = cfg /\ cache' = cache /\ pokemon' = pokemon /\ fetch' = fetch

C36_Once ==
  /\ (rp' = "run" /\ rp # "run") => rp = "prompt"
  /\ (rp = "run" /\ rp' # rp) => rp' \in {"done", "exited", "f_get_lock"}
  /\ cmd' # cmd => rp \in {"prompt", "done"}

C36_ErrorPrinted ==
  (rp = "f_done" /\ fetch.err # NilErr /\ rp' # rp) =>
    /\ rp' = "done"
    /\ out' \in {<<fetch.err>>,
                 <<"error client fetching pokemon from location: " \o fetch.err>>,
                 <<"error client fetching pokemon details: " \o fetch.err>>}
    /\ cfg' = cfg /\ cache' = cache /\ pokemon' = pokemon

C36_NextPrompt ==
  (rp = "done" /\ rp' # rp) =>
    /\ rp' = "prompt"
    /\ cfg' = cfg /\ cache' = cache /\ pokemon' = pokemon

C36_Dispatch ==
  /\ []C36_BlankRunsNothing
  /\ [][C36_ReadStep /\ C36_Once /\ C36_ErrorPrinted /\ C36_NextPrompt]_vars

\* a line whose first word is no command was answered with "Invalid command"
\* while cursors, cache and registry hold what earlier commands left
C36_Witness ==
  /\ rp = "done"
  /\ out = <<"Invalid command">>
  /\ cmd = NoCmd
  /\ cfg.NextURL # ""
  /\ cache # << >>
  /\ pokemon # << >>

\* the commands and the methods that need an argument, and a call without it
C37_NoArgCommand ==
  cmd.name \in {"explore", "catch", "inspect"} /\ cmd.args = << >>
C37_EmptyNameCall ==
  cmd.name \in {"GetLocationArea", "GetPokemonStats"} /\ cmd.args = <<"">>

\* C37: missing argument.  explore, catch and inspect without an argument,
\* and GetLocationArea and GetPokemonStats with the empty name, never stand
\* at a cache lookup, an HTTP request or a cache insert: the command ends
\* with its error printed, the method has returned its error with no URL
\* looked up; and no step of such a call changes the cache, the registry or
\* the cursors.
C37_NoFetch ==
  /\ C37_NoArgCommand =>
       /\ rp \in {"run", "done"}
       /\ rp = "done" =>
            out \in { <<"error: explore must take location area name as argument">>,
                      <<"error: catch must take pokemon name as argument">>,
                      <<"error: inspect must take pokemon name as argument">> }
  /\ C37_EmptyNameCall =>
       /\ rp = "f_done"
       /\ fetch.url = ""
       /\ fetch.err \in {"location name cannot be empty",
                         "pokemon name cannot be empty"}

C37_Frame ==
  (C37_NoArgCommand \/ C37_EmptyNameCall \/ C37_EmptyNameCall') =>
    /\ cache' = cache
    /\ pokemon' = pokemon
    /\ cfg' = cfg

C37_MissingArgument == []C37_NoFetch /\ [][C37_Frame]_vars

\* GetLocationArea("") has returned its error, with the cache, the registry
\* and the cursors holding what earlier commands left
C37_Witness ==
  /\ rp = "f_done"
  /\ cmd = [name |-> "GetLocationArea", args |-> <<"">>]
  /\ fetch.err = "location name cannot be empty"
  /\ cache # << >>
  /\ pokemon # << >>
  /\ cfg.NextURL # ""

\* C38: a client without a cache cannot fetch.  A lookup on the nil handle
\* ends the method in one step with an error, the body not set and the cache
\* as it was; so a method that stands at the HTTP request or at the insert
\* was not called on a client without a cache: there is no fallback to the
\* network.
C38_NilLookupStep ==
  (rp = "f_get_nil" /\ rp' # rp) =>
    /\ rp' = "f_done"
    /\ fetch'.err # NilErr
    /\ fetch'.body = NoBody
    /\ fetch'.url = fetch.url
    /\ cache' = cache
    /\ cmd' = cmd

C38_RequestHadLookup ==
  (rp' \in {"f_http", "f_add_lock", "f_add"} /\ rp' # rp) =>
    rp \in {"f_get", "f_http", "f_add_lock"}

C38_LockedLookupOnly ==
  (rp' = "f_get" /\ rp' # rp) => (rp = "f_get_lock" /\ mu' = TRUE)

C38_NoCacheNoFetch ==
  [][C38_NilLookupStep /\ C38_RequestHadLookup /\ C38_LockedLookupOnly]_vars

\* GetPokemonStats("n1") on a client without a cache has returned the
\* lookup's error, though the service has the creature
C38_Witness ==
  /\ rp = "f_done"
  /\ cmd = [name |-> "GetPokemonStats", args |-> <<"n1">>]
  /\ fetch.url = PokemonURL("n1")
  /\ Served(fetch.url)
  /\ fetch.err = "error getting cached entries: cacheGet called with nil receiver"
  /\ fetch.body = NoBody

\* C39: the REPL loop ends only through the exit command.  The loop is left
\* by no step but the exit command's; once the input has ended, the loop
\* alternates for ever between the read that yields the empty line and the
\* continue, running no command; and in every state but the one after exit
\* the loop has a next step.
C39_OnlyExit ==
  (rp' = "exited" /\ rp # "exited") => (rp = "run" /\ cmd.name = "exit")

C39_EndOfInput ==
  /\ rp = "eof" => rp' \in {"eof", "eof_empty"}
  /\ rp = "eof_empty" => rp' \in {"eof", "eof_empty"}
  /\ rp \in {"eof", "eof_empty"} => UNCHANGED <<cmd, cfg, cache, pokemon, out>>

C39_Iterates == rp # "exited" => ENABLED <<NextEnd>>_rp

C39_EndsOnlyByExit ==
  /\ []C39_Iterates
  /\ [][C39_OnlyExit /\ C39_EndOfInput]_vars

\* the input ended after a session that caught a creature, and the loop has
\* come round to its top again
C39_Witness ==
  /\ rp = "eof"
  /\ pokemon # << >>
  /\ cache # << >>

====
